---- MODULE Spec2Model ----
(***************************************************************************)
(* Identity matching engine of TrueFace (backend/db.py, backend/           *)
(* ann_index.py): the user store with its per-identity face embeddings,    *)
(* the optional in-memory ANN index built at connect(), and the three      *)
(* read operations find_best_match, verify_user and search_candidates.     *)
(*                                                                         *)
(* Scores are cosine similarities in fixed point: a float s of the code is *)
(* the integer s * Scale here.  All vectors of the model have integer      *)
(* norms, so every score of the model is exact.  DEV_MODE_NO_DB is false   *)
(* (the production path of each function).                                 *)
(***************************************************************************)
EXTENDS Integers, Sequences, FiniteSets, TLC

\* ------------------------------------------------------------------ bounds
\* total number of embeddings the store may hold
MaxEmb == 3
\* largest k passed to search_candidates
MaxK == 3

\* ------------------------------------------------------------- vectors
\* one unit of score: 1.0 of the code
Scale == 1000

E1 == <<1, 0>>
E2 == <<0, 1>>
NE1 == <<-1, 0>>
W == <<3, 4>>
Q3 == <<1, 0, 0>>

\* embeddings that enrollment may store, and embeddings a request may carry
StoredVectors == {E1, E2}
QueryVectors == {E1, E2, NE1, W, Q3}

\* np.dot on two 1-d arrays of equal length
RECURSIVE Dot(_, _)
Dot(a, b) ==
    IF Len(a) = 0 THEN 0
    ELSE Head(a) * Head(b) + Dot(Tail(a), Tail(b))

\* np.linalg.norm: the model's vectors have integer norms
Norm(a) == CHOOSE n \in 0..(Dot(a, a)) : n * n = Dot(a, a)

\* np.dot raises ValueError on arrays of different length
ShapeOk(a, b) == Len(a) = Len(b)

\* float(np.dot(q, emb) / (np.linalg.norm(q) * np.linalg.norm(emb) + 1e-10)):
\* the 1e-10 only decides the all-zero case, where the quotient is 0
Sim(q, emb) ==
    IF Norm(q) * Norm(emb) = 0 THEN 0
    ELSE (Dot(q, emb) * Scale) \div (Norm(q) * Norm(emb))

\* ------------------------------------------------------------- state
\* users  : the users collection in the store's iteration order; the
\*          identity id of users[i] is i, users[i] is its list of faces
\* db     : the module-level _db handle, "none" before connect()
\* ann    : the module-level _ann_index handle
\* last   : the request in flight: what the last call did and returned,
\*          until its response is delivered
\* sessions : the sessions collection; the session id of sessions[i] is i
\* logs   : the number of documents in the logs collection
VARIABLES users, db, ann, last, sessions, logs
vars == <<users, db, ann, last, sessions, logs>>

\* _ann_index = None
NoIndex == [kind |-> "none", initialized |-> FALSE, dim |-> 0, points |-> <<>>]

\* no call in flight
Idle == [op |-> "none", q |-> <<>>, k |-> 0, uid |-> 0, outcome |-> "none",
         ret |-> <<>>, score |-> 0, trace |-> <<>>]

Max(a, b) == IF a > b THEN a ELSE b

RECURSIVE TotalEmb(_)
TotalEmb(us) == IF Len(us) = 0 THEN 0 ELSE Len(Head(us)) + TotalEmb(Tail(us))

\* faces lists of one identity: non-empty, of stored vectors
FacesOfLen(n) == [1..n -> StoredVectors]

RECURSIVE StoresOf(_)
\* every store holding exactly n embeddings
StoresOf(n) ==
    IF n = 0 THEN {<<>>}
    ELSE UNION {{<<f>> \o s : f \in FacesOfLen(m), s \in StoresOf(n - m)} : m \in 1..n}

\* _all_embeddings_with_user: the (uid, name, emb) triples in cursor order
RECURSIVE AllEmbeddingsFrom(_, _)
AllEmbeddingsFrom(us, i) ==
    IF i > Len(us) THEN <<>>
    ELSE [j \in 1..Len(us[i]) |-> [id |-> i, vec |-> us[i][j]]]
             \o AllEmbeddingsFrom(us, i + 1)

AllEmbeddingsWithUser(us) == AllEmbeddingsFrom(us, 1)

\* users.find_one({"_id": ObjectId(cid)}): the document, or None
UserExists(us, cid) == cid \in 1..Len(us)

\* a match dict {"user_id", "name", "confidence"}; the name is the
\* identity's own and is carried by user_id
Match(uid, conf) == [user_id |-> uid, confidence |-> conf]

\* ------------------------------------------------------------- ANN index
\* positions of vecs that build() keeps when it indexes one point per label
FirstOfId(ids) ==
    {i \in 1..Len(ids) : \A j \in 1..(i - 1) : ids[j] # ids[i]}

RECURSIVE KeepPositions(_, _, _)
KeepPositions(vecs, ids, i) ==
    IF i > Len(vecs) THEN <<>>
    ELSE IF i \in FirstOfId(ids)
         THEN <<[id |-> ids[i], vec |-> vecs[i]]>> \o KeepPositions(vecs, ids, i + 1)
         ELSE KeepPositions(vecs, ids, i + 1)

\* build() keeping one point per identity (its first embedding)
Build_OnePointPerIdentity(vecs, ids) ==
    [kind |-> "hnsw", initialized |-> TRUE, dim |-> Len(vecs[1]),
     points |-> KeepPositions(vecs, ids, 1)]

\* ANNIndex.build on the hnswlib backend: one indexed point per
\* (identity, embedding) pair, labelled with the identity id; knn hands
\* back str(label), taken here to name the identity the point was built
\* from.  The snapshots of the model are small enough for the graph search
\* to be exhaustive, so knn yields the true nearest points
Build(vecs, ids) ==
    [kind |-> "hnsw", initialized |-> TRUE, dim |-> Len(vecs[1]),
     points |-> [i \in 1..Len(vecs) |-> [id |-> ids[i], vec |-> vecs[i]]]]

\* ANNIndex(dim) whose build() did nothing (no-op class) or raised
Unbuilt(kind, vecs) ==
    [kind |-> kind, initialized |-> FALSE, dim |-> Len(vecs[1]), points |-> <<>>]

\* sim = 1.0 - float(dist); the cosine space reports dist = 1 - cos
ApproxSim(q, vec) == Scale - (Scale - Sim(q, vec))

\* orders of the indexed points by distance, nearest first; points at the
\* same distance come in any order
NearestFirst(a, q) ==
    {p \in [1..Len(a.points) -> 1..Len(a.points)] :
        /\ \A i, j \in 1..Len(a.points) : i # j => p[i] # p[j]
        /\ \A i \in 1..(Len(a.points) - 1) :
              ApproxSim(q, a.points[p[i]].vec) >= ApproxSim(q, a.points[p[i + 1]].vec)}

KnnRaised == [raised |-> TRUE, res |-> <<>>]

\* knn without the _initialized test: the query always reaches knn_query
Knn_QueriesUnbuilt(a, q, k) ==
    IF Len(q) # a.dim \/ k > Len(a.points) THEN {KnnRaised}
    ELSE {KnnRaised} \cup
         {[raised |-> FALSE,
           res |-> [i \in 1..k |-> [id |-> a.points[p[i]].id,
                                    sim |-> ApproxSim(q, a.points[p[i]].vec)]]] :
             p \in NearestFirst(a, q)}

\* ANNIndex.knn(vector, k): what a call can do.  Not initialized (or the
\* no-op class): [].  Otherwise knn_query raises on a query of the wrong
\* dimension or when fewer than k points are indexed, may raise for
\* reasons of its own, and else yields the k nearest (str(label), sim).
Knn(a, q, k) ==
    IF ~a.initialized THEN {[raised |-> FALSE, res |-> <<>>]}
    ELSE IF Len(q) # a.dim \/ k > Len(a.points) THEN {KnnRaised}
    ELSE {KnnRaised} \cup
         {[raised |-> FALSE,
           res |-> [i \in 1..k |-> [id |-> a.points[p[i]].id,
                                    sim |-> ApproxSim(q, a.points[p[i]].vec)]]] :
             p \in NearestFirst(a, q)}

\* ------------------------------------------------------------- scans
RECURSIVE BestScoreOver_LastWins(_, _, _)
\* the loop with best_score = score in place of the max()
BestScoreOver_LastWins(faces, q, best_score) ==
    IF Len(faces) = 0 THEN best_score
    ELSE BestScoreOver_LastWins(Tail(faces), q, Sim(q, Head(faces)))

RECURSIVE BestScoreOver(_, _, _)
\* for f in u["faces"]: best_score = max(best_score, score)
BestScoreOver(faces, q, best_score) ==
    IF Len(faces) = 0 THEN best_score
    ELSE BestScoreOver(Tail(faces), q, Max(best_score, Sim(q, Head(faces))))

FacesShapeOk(faces, q) == \A i \in 1..Len(faces) : ShapeOk(q, faces[i])

RECURSIVE ScanBest_LowestWins(_, _, _)
\* the naive scan's loop with the comparison turned around
ScanBest_LowestWins(triples, q, best) ==
    IF Len(triples) = 0 THEN best
    ELSE LET t == Head(triples)
             score == Sim(q, t.vec)
         IN  IF best = <<>> \/ score < best[1].confidence
             THEN ScanBest_LowestWins(Tail(triples), q, <<Match(t.id, score)>>)
             ELSE ScanBest_LowestWins(Tail(triples), q, best)

RECURSIVE ScanBest_LastTieWins(_, _, _)
\* the naive scan's loop with >= in place of >
ScanBest_LastTieWins(triples, q, best) ==
    IF Len(triples) = 0 THEN best
    ELSE LET t == Head(triples)
             score == Sim(q, t.vec)
         IN  IF best = <<>> \/ score >= best[1].confidence
             THEN ScanBest_LastTieWins(Tail(triples), q, <<Match(t.id, score)>>)
             ELSE ScanBest_LastTieWins(Tail(triples), q, best)

RECURSIVE ScanBest(_, _, _)
\* the naive scan's loop: best is <<>> (None) or <<match>>.  best_score
\* starts at -1.0, which is below every score (the 1e-10 in the
\* denominator keeps each quotient strictly above -1.0), so the first
\* embedding is always taken; afterwards only a strictly higher score wins
ScanBest(triples, q, best) ==
    IF Len(triples) = 0 THEN best
    ELSE LET t == Head(triples)
             score == Sim(q, t.vec)
         IN  IF best = <<>> \/ score > best[1].confidence
             THEN ScanBest(Tail(triples), q, <<Match(t.id, score)>>)
             ELSE ScanBest(Tail(triples), q, best)

Res(outcome, ret, score, trace) ==
    [outcome |-> outcome, ret |-> ret, score |-> score, trace |-> trace]

\* the naive scan skipping embeddings of another length than the query
NaiveScan_SkipsMismatched(us, q, scan, trace) ==
    IF scan = "find_raises" THEN Res("DBUnavailable", <<>>, 0, trace \o <<"scan_raised">>)
    ELSE IF scan = "iter_raises" THEN Res("PyMongoError", <<>>, 0, trace \o <<"scan_raised">>)
    ELSE Res("return",
             ScanBest(SelectSeq(AllEmbeddingsWithUser(us),
                                LAMBDA t : Len(t.vec) = Len(q)), q, <<>>),
             0, trace \o <<"scan_ok">>)

\* the naive scan taking max() over the scores, which raises on no scores
NaiveScan_MaxOfEmpty(us, q, scan, trace) ==
    IF scan = "find_raises" THEN Res("DBUnavailable", <<>>, 0, trace \o <<"scan_raised">>)
    ELSE IF scan = "iter_raises" THEN Res("PyMongoError", <<>>, 0, trace \o <<"scan_raised">>)
    ELSE IF Len(AllEmbeddingsWithUser(us)) = 0
         \/ ~FacesShapeOk([i \in 1..Len(AllEmbeddingsWithUser(us)) |->
                               AllEmbeddingsWithUser(us)[i].vec], q)
         THEN Res("ValueError", <<>>, 0, trace \o <<"scan_raised">>)
    ELSE Res("return", ScanBest(AllEmbeddingsWithUser(us), q, <<>>), 0,
             trace \o <<"scan_ok">>)

\* the fallback naive scan of find_best_match (db.py 241-252); scan says
\* what the store does: users.find raises (wrapped into DBUnavailable),
\* the cursor raises while iterating (not wrapped), or it answers
NaiveScan(us, q, scan, trace) ==
    IF scan = "find_raises" THEN Res("DBUnavailable", <<>>, 0, trace \o <<"scan_raised">>)
    ELSE IF scan = "iter_raises" THEN Res("PyMongoError", <<>>, 0, trace \o <<"scan_raised">>)
    ELSE IF ~FacesShapeOk([i \in 1..Len(AllEmbeddingsWithUser(us)) |->
                               AllEmbeddingsWithUser(us)[i].vec], q)
         THEN Res("ValueError", <<>>, 0, trace \o <<"scan_raised">>)
    ELSE Res("return", ScanBest(AllEmbeddingsWithUser(us), q, <<>>), 0,
             trace \o <<"scan_ok">>)

\* find_best_match whose handler lets DBUnavailable through
FindBestMatch_LookupSurfaces(us, dbh, a, q, knn, lookup, scan) ==
    IF dbh = "none" THEN Res("DBUnavailable", <<>>, 0, <<>>)
    ELSE IF a.kind = "none" THEN NaiveScan(us, q, scan, <<>>)
    ELSE IF knn.raised THEN NaiveScan(us, q, scan, <<"knn_raised">>)
    ELSE IF Len(knn.res) = 0 THEN Res("return", <<>>, 0, <<"knn_empty">>)
    ELSE IF lookup = "raises"
         THEN Res("DBUnavailable", <<>>, 0, <<"knn_ok", "lookup_raised">>)
    ELSE IF ~UserExists(us, knn.res[1].id)
         THEN Res("return", <<>>, 0, <<"knn_ok", "lookup_absent">>)
    ELSE IF ~FacesShapeOk(us[knn.res[1].id], q)
         THEN NaiveScan(us, q, scan, <<"knn_ok", "lookup_ok", "rescore_raised">>)
    ELSE Res("return",
             <<Match(knn.res[1].id, BestScoreOver(us[knn.res[1].id], q, 0))>>, 0,
             <<"knn_ok", "lookup_ok", "rescore_ok">>)

\* find_best_match that reports the approximate score of the candidate
FindBestMatch_TrustsApprox(us, dbh, a, q, knn, lookup, scan) ==
    IF dbh = "none" THEN Res("DBUnavailable", <<>>, 0, <<>>)
    ELSE IF a.kind = "none" THEN NaiveScan(us, q, scan, <<>>)
    ELSE IF knn.raised THEN NaiveScan(us, q, scan, <<"knn_raised">>)
    ELSE IF Len(knn.res) = 0 THEN Res("return", <<>>, 0, <<"knn_empty">>)
    ELSE IF lookup = "raises"
         THEN NaiveScan(us, q, scan, <<"knn_ok", "lookup_raised">>)
    ELSE IF ~UserExists(us, knn.res[1].id)
         THEN Res("return", <<>>, 0, <<"knn_ok", "lookup_absent">>)
    ELSE IF ~FacesShapeOk(us[knn.res[1].id], q)
         THEN NaiveScan(us, q, scan, <<"knn_ok", "lookup_ok", "rescore_raised">>)
    ELSE Res("return", <<Match(knn.res[1].id, Max(0, knn.res[1].sim))>>, 0,
             <<"knn_ok", "lookup_ok", "rescore_ok">>)

\* find_best_match querying the index a second time after it raised
FindBestMatch_RetriesIndex(us, dbh, a, q, knn, lookup, scan) ==
    IF dbh = "none" THEN Res("DBUnavailable", <<>>, 0, <<>>)
    ELSE IF a.kind = "none" THEN NaiveScan(us, q, scan, <<>>)
    ELSE IF knn.raised THEN NaiveScan(us, q, scan, <<"knn_raised", "knn_raised">>)
    ELSE IF Len(knn.res) = 0 THEN Res("return", <<>>, 0, <<"knn_empty">>)
    ELSE IF lookup = "raises"
         THEN NaiveScan(us, q, scan, <<"knn_ok", "lookup_raised">>)
    ELSE IF ~UserExists(us, knn.res[1].id)
         THEN Res("return", <<>>, 0, <<"knn_ok", "lookup_absent">>)
    ELSE IF ~FacesShapeOk(us[knn.res[1].id], q)
         THEN NaiveScan(us, q, scan, <<"knn_ok", "lookup_ok", "rescore_raised">>)
    ELSE Res("return",
             <<Match(knn.res[1].id, BestScoreOver(us[knn.res[1].id], q, 0))>>, 0,
             <<"knn_ok", "lookup_ok", "rescore_ok">>)

\* find_best_match that, once the candidate is found and re-scored, answers
\* with the best embedding of the whole store
FindBestMatch_RescoresWholeStore(us, dbh, a, q, knn, lookup, scan) ==
    IF dbh = "none" THEN Res("DBUnavailable", <<>>, 0, <<>>)
    ELSE IF a.kind = "none" THEN NaiveScan(us, q, scan, <<>>)
    ELSE IF knn.raised THEN NaiveScan(us, q, scan, <<"knn_raised">>)
    ELSE IF Len(knn.res) = 0 THEN Res("return", <<>>, 0, <<"knn_empty">>)
    ELSE IF lookup = "raises"
         THEN NaiveScan(us, q, scan, <<"knn_ok", "lookup_raised">>)
    ELSE IF ~UserExists(us, knn.res[1].id)
         THEN Res("return", <<>>, 0, <<"knn_ok", "lookup_absent">>)
    ELSE IF ~FacesShapeOk(us[knn.res[1].id], q)
         THEN NaiveScan(us, q, scan, <<"knn_ok", "lookup_ok", "rescore_raised">>)
    ELSE Res("return", ScanBest(AllEmbeddingsWithUser(us), q, <<>>), 0,
             <<"knn_ok", "lookup_ok", "rescore_ok">>)

\* find_best_match(query_embedding); knn is the outcome of the index
\* query, lookup and scan what the store does when asked
FindBestMatch(us, dbh, a, q, knn, lookup, scan) ==
    IF dbh = "none" THEN Res("DBUnavailable", <<>>, 0, <<>>)
    ELSE IF a.kind = "none" THEN NaiveScan(us, q, scan, <<>>)
    ELSE IF knn.raised THEN NaiveScan(us, q, scan, <<"knn_raised">>)
    ELSE IF Len(knn.res) = 0 THEN Res("return", <<>>, 0, <<"knn_empty">>)
    ELSE IF lookup = "raises"
         THEN NaiveScan(us, q, scan, <<"knn_ok", "lookup_raised">>)
    ELSE IF ~UserExists(us, knn.res[1].id)
         THEN Res("return", <<>>, 0, <<"knn_ok", "lookup_absent">>)
    ELSE IF ~FacesShapeOk(us[knn.res[1].id], q)
         THEN NaiveScan(us, q, scan, <<"knn_ok", "lookup_ok", "rescore_raised">>)
    ELSE Res("return",
             <<Match(knn.res[1].id, BestScoreOver(us[knn.res[1].id], q, 0))>>, 0,
             <<"knn_ok", "lookup_ok", "rescore_ok">>)

\* verify_user whose best_score starts below every score, as the naive
\* scan's does
VerifyUser_NoFloor(us, dbh, uid, q, lookup) ==
    IF dbh = "none" THEN Res("DBUnavailable", <<>>, 0, <<>>)
    ELSE IF lookup = "raises" THEN Res("DBUnavailable", <<>>, 0, <<"lookup_raised">>)
    ELSE IF ~UserExists(us, uid) THEN Res("return", <<>>, 0, <<"lookup_absent">>)
    ELSE IF ~FacesShapeOk(us[uid], q)
         THEN Res("ValueError", <<>>, 0, <<"lookup_ok", "rescore_raised">>)
    ELSE Res("return", <<>>, BestScoreOver(us[uid], q, -Scale),
             <<"lookup_ok", "rescore_ok">>)

\* verify_user(user_id, query_embedding)
VerifyUser(us, dbh, uid, q, lookup) ==
    IF dbh = "none" THEN Res("DBUnavailable", <<>>, 0, <<>>)
    ELSE IF lookup = "raises" THEN Res("DBUnavailable", <<>>, 0, <<"lookup_raised">>)
    ELSE IF ~UserExists(us, uid) THEN Res("return", <<>>, 0, <<"lookup_absent">>)
    ELSE IF ~FacesShapeOk(us[uid], q)
         THEN Res("ValueError", <<>>, 0, <<"lookup_ok", "rescore_raised">>)
    ELSE Res("return", <<>>, BestScoreOver(us[uid], q, 0), <<"lookup_ok", "rescore_ok">>)

\* ------------------------------------------------------------- heapq
\* heap entries are the tuples (score, dict).  a < b on such tuples:
\* decided by the scores when they differ; with equal scores the dicts are
\* compared, equal dicts make the tuples equal (not less), and different
\* dicts cannot be ordered: TypeError
Entry(uid, score) == [score |-> score, user_id |-> uid]

Lt(a, b) ==
    IF a.score # b.score THEN IF a.score < b.score THEN "lt" ELSE "ge"
    ELSE IF a.user_id = b.user_id THEN "ge"
    ELSE "TypeError"

\* a heap under construction: the list (0-based positions of heapq are
\* 1-based here) and whether a comparison raised
HeapOk(h) == [heap |-> h, err |-> FALSE]
HeapErr(h) == [heap |-> h, err |-> TRUE]

RECURSIVE SiftDown(_, _, _, _)
\* heapq._siftdown(heap, startpos, pos) moving newitem up towards startpos
SiftDown(h, startpos, pos, newitem) ==
    IF pos > startpos
    THEN LET parentpos == pos \div 2
             c == Lt(newitem, h[parentpos])
         IN  IF c = "TypeError" THEN HeapErr(h)
             ELSE IF c = "lt"
                  THEN SiftDown([h EXCEPT ![pos] = h[parentpos]], startpos, parentpos, newitem)
                  ELSE HeapOk([h EXCEPT ![pos] = newitem])
    ELSE HeapOk([h EXCEPT ![pos] = newitem])

\* heapq.heappush(heap, item)
HeapPush(h, item) == SiftDown(Append(h, item), 1, Len(h) + 1, item)

RECURSIVE SiftUp(_, _, _)
\* heapq._siftup(heap, pos): bubble the smaller child up until a leaf,
\* then sift newitem down from there
SiftUp(h, pos, newitem) ==
    LET childpos == 2 * pos
        rightpos == childpos + 1
    IN  IF childpos <= Len(h)
        THEN IF rightpos <= Len(h)
             THEN LET c == Lt(h[childpos], h[rightpos])
                  IN  IF c = "TypeError" THEN HeapErr(h)
                      ELSE LET ch == IF c = "lt" THEN childpos ELSE rightpos
                           IN  SiftUp([h EXCEPT ![pos] = h[ch]], ch, newitem)
             ELSE SiftUp([h EXCEPT ![pos] = h[childpos]], childpos, newitem)
        ELSE SiftDown(h, 1, pos, newitem)

\* heapq.heappushpop(heap, item): the returned item is dropped by the caller
HeapPushPop(h, item) ==
    IF Len(h) = 0 THEN HeapOk(h)
    ELSE LET c == Lt(h[1], item)
         IN  IF c = "TypeError" THEN HeapErr(h)
             ELSE IF c = "lt" THEN SiftUp([h EXCEPT ![1] = item], 1, item)
             ELSE HeapOk(h)

RECURSIVE HeapScan_OffByOne(_, _, _, _)
\* the loop with a heap that is full one entry early
HeapScan_OffByOne(triples, q, top_k, hs) ==
    IF Len(triples) = 0 \/ hs.err THEN hs
    ELSE LET t == Head(triples)
             item == Entry(t.id, Sim(q, t.vec))
         IN  HeapScan_OffByOne(Tail(triples), q, top_k,
                      IF Len(hs.heap) + 1 < top_k THEN HeapPush(hs.heap, item)
                      ELSE HeapPushPop(hs.heap, item))

RECURSIVE HeapScan(_, _, _, _)
\* the loop of the naive heap-based scan of search_candidates
HeapScan(triples, q, top_k, hs) ==
    IF Len(triples) = 0 \/ hs.err THEN hs
    ELSE LET t == Head(triples)
             item == Entry(t.id, Sim(q, t.vec))
         IN  HeapScan(Tail(triples), q, top_k,
                      IF Len(hs.heap) < top_k THEN HeapPush(hs.heap, item)
                      ELSE HeapPushPop(hs.heap, item))

RECURSIVE InsertDesc_Ascending(_, _)
\* the sort without the minus sign of its key
InsertDesc_Ascending(sorted, x) ==
    IF Len(sorted) = 0 THEN <<x>>
    ELSE IF Head(sorted).score <= x.score
         THEN <<Head(sorted)>> \o InsertDesc_Ascending(Tail(sorted), x)
    ELSE <<x>> \o sorted

RECURSIVE InsertDesc(_, _)
\* place x after every entry whose score is not lower (stable)
InsertDesc(sorted, x) ==
    IF Len(sorted) = 0 THEN <<x>>
    ELSE IF Head(sorted).score >= x.score THEN <<Head(sorted)>> \o InsertDesc(Tail(sorted), x)
    ELSE <<x>> \o sorted

RECURSIVE SortedDesc(_)
\* sorted(heap, key=lambda x: -x[0]): stable, compares the keys only
SortedDesc(h) ==
    IF Len(h) = 0 THEN <<>>
    ELSE InsertDesc(SortedDesc(SubSeq(h, 1, Len(h) - 1)), h[Len(h)])

\* the naive heap-based scan of search_candidates (db.py 320-340)
NaiveTopK(us, q, top_k, scan, trace) ==
    IF scan = "find_raises" THEN Res("DBUnavailable", <<>>, 0, trace \o <<"scan_raised">>)
    ELSE IF scan = "iter_raises" THEN Res("PyMongoError", <<>>, 0, trace \o <<"scan_raised">>)
    ELSE IF ~FacesShapeOk([i \in 1..Len(AllEmbeddingsWithUser(us)) |->
                               AllEmbeddingsWithUser(us)[i].vec], q)
         THEN Res("ValueError", <<>>, 0, trace \o <<"scan_raised">>)
    ELSE LET hs == HeapScan(AllEmbeddingsWithUser(us), q, top_k, HeapOk(<<>>))
         IN  IF hs.err THEN Res("TypeError", <<>>, 0, trace \o <<"scan_raised">>)
             ELSE Res("return",
                      [i \in 1..Len(hs.heap) |->
                          Match(SortedDesc(hs.heap)[i].user_id, SortedDesc(hs.heap)[i].score)],
                      0, trace \o <<"scan_ok">>)

RECURSIVE AnnResults(_, _, _, _)
\* the loop over knn in search_candidates: failAt is the position of the
\* lookup that raises (0: none).  Yields the results list, or raised
AnnResults(us, res, i, failAt) ==
    IF i > Len(res) THEN [raised |-> FALSE, results |-> <<>>]
    ELSE IF i = failAt THEN [raised |-> TRUE, results |-> <<>>]
    ELSE LET rest == AnnResults(us, res, i + 1, failAt)
         IN  IF rest.raised THEN rest
             ELSE IF ~UserExists(us, res[i].id) THEN rest
             ELSE [raised |-> FALSE,
                   results |-> <<Match(res[i].id, res[i].sim)>> \o rest.results]

\* search_candidates that re-scores the approximate results precisely
SearchCandidates_Rescores(us, dbh, a, q, top_k, knn, failAt, scan) ==
    IF dbh = "none" THEN Res("DBUnavailable", <<>>, 0, <<>>)
    ELSE IF a.kind = "none" THEN NaiveTopK(us, q, top_k, scan, <<>>)
    ELSE IF knn.raised THEN NaiveTopK(us, q, top_k, scan, <<"knn_raised">>)
    ELSE LET r == AnnResults(us, knn.res, 1, failAt)
         IN  IF r.raised THEN NaiveTopK(us, q, top_k, scan, <<"knn_ok", "lookup_raised">>)
             ELSE IF Len(r.results) > 0
                  THEN Res("return",
                           [i \in 1..Len(r.results) |->
                               Match(r.results[i].user_id,
                                     BestScoreOver(us[r.results[i].user_id], q, 0))],
                           0, <<"knn_ok", "lookup_ok">>)
             ELSE IF Len(knn.res) = 0 THEN NaiveTopK(us, q, top_k, scan, <<"knn_empty">>)
             ELSE NaiveTopK(us, q, top_k, scan, <<"knn_ok", "lookup_absent">>)

\* search_candidates(query_embedding, top_k)
SearchCandidates(us, dbh, a, q, top_k, knn, failAt, scan) ==
    IF dbh = "none" THEN Res("DBUnavailable", <<>>, 0, <<>>)
    ELSE IF a.kind = "none" THEN NaiveTopK(us, q, top_k, scan, <<>>)
    ELSE IF knn.raised THEN NaiveTopK(us, q, top_k, scan, <<"knn_raised">>)
    ELSE LET r == AnnResults(us, knn.res, 1, failAt)
         IN  IF r.raised THEN NaiveTopK(us, q, top_k, scan, <<"knn_ok", "lookup_raised">>)
             ELSE IF Len(r.results) > 0
                  THEN Res("return", r.results, 0, <<"knn_ok", "lookup_ok">>)
             ELSE IF Len(knn.res) = 0 THEN NaiveTopK(us, q, top_k, scan, <<"knn_empty">>)
             ELSE NaiveTopK(us, q, top_k, scan, <<"knn_ok", "lookup_absent">>)

\* ------------------------------------------------------------- connect
\* the index part of connect(): storeOk is whether the store answers
\* (create_index and the embedding scan), backend which ANNIndex class was
\* imported, build what the hnswlib constructor and build() do.  Every
\* exception is swallowed; _ann_index is assigned before build() runs
ConnectIndex(us, a, storeOk, backend, build) ==
    LET triples == AllEmbeddingsWithUser(us)
        vecs == [i \in 1..Len(triples) |-> triples[i].vec]
        ids == [i \in 1..Len(triples) |-> triples[i].id]
    IN  IF ~storeOk \/ Len(vecs) = 0 THEN a
        ELSE IF backend = "noop" THEN Unbuilt("noop", vecs)
        ELSE IF build = "init_raises" THEN a
        ELSE IF build = "build_raises" THEN Unbuilt("hnsw", vecs)
        ELSE Build(vecs, ids)

Call(op, q, k, uid, r) ==
    [op |-> op, q |-> q, k |-> k, uid |-> uid, outcome |-> r.outcome,
     ret |-> r.ret, score |-> r.score, trace |-> r.trace]

\* ------------------------------------------------------------- actions
\* the process starts with no database handle and no index; the store is
\* durable and holds whatever earlier processes enrolled
Init ==
    /\ users \in UNION {StoresOf(n) : n \in 0..MaxEmb}
    /\ db = "none"
    /\ ann = NoIndex
    /\ last = Idle
    /\ sessions = <<>>
    /\ logs = 0

\* lifespan() calls db.connect(MONGO_URI) once, at startup
Connect ==
    /\ last = Idle
    /\ db = "none"
    /\ \E storeOk \in BOOLEAN, backend \in {"noop", "hnsw"},
          build \in {"ok", "init_raises", "build_raises"} :
          ann' = ConnectIndex(users, ann, storeOk, backend, build)
    /\ db' = "up"
    /\ last' = Call("connect", <<>>, 0, 0, Res("return", <<>>, 0, <<>>))
    /\ UNCHANGED <<users, sessions, logs>>

\* create_user(name, email, embedding): insert_one appends a document
\* with one face, or the store raises
CreateUser ==
    /\ last = Idle
    /\ TotalEmb(users) < MaxEmb
    /\ \E emb \in StoredVectors, storeOk \in BOOLEAN :
          IF db = "none" \/ ~storeOk
          THEN /\ last' = Call("create_user", emb, 0, 0, Res("DBUnavailable", <<>>, 0, <<>>))
               /\ UNCHANGED users
          ELSE /\ users' = Append(users, <<emb>>)
               /\ last' = Call("create_user", emb, 0, Len(users) + 1,
                               Res("return", <<>>, 0, <<>>))
    /\ UNCHANGED <<db, ann, sessions, logs>>

\* add_face_to_user with $set in place of $push: the faces are replaced
AddFaceToUser_SetsFaces ==
    /\ last = Idle
    /\ TotalEmb(users) < MaxEmb
    /\ \E uid \in 1..(Len(users) + 1), emb \in StoredVectors, storeOk \in BOOLEAN :
          IF db = "none" \/ ~storeOk
          THEN /\ last' = Call("add_face_to_user", emb, 0, uid,
                               Res("DBUnavailable", <<>>, 0, <<>>))
               /\ UNCHANGED users
          ELSE IF UserExists(users, uid)
          THEN /\ users' = [users EXCEPT ![uid] = <<emb>>]
               /\ last' = Call("add_face_to_user", emb, 0, uid, Res("return", <<>>, 1, <<>>))
          ELSE /\ last' = Call("add_face_to_user", emb, 0, uid, Res("return", <<>>, 0, <<>>))
               /\ UNCHANGED users
    /\ UNCHANGED <<db, ann, sessions, logs>>

\* add_face_to_user(user_id, embedding): $push onto the faces of a
\* matching document; returns matched_count > 0 (score 1 for True)
AddFaceToUser ==
    /\ last = Idle
    /\ TotalEmb(users) < MaxEmb
    /\ \E uid \in 1..(Len(users) + 1), emb \in StoredVectors, storeOk \in BOOLEAN :
          IF db = "none" \/ ~storeOk
          THEN /\ last' = Call("add_face_to_user", emb, 0, uid,
                               Res("DBUnavailable", <<>>, 0, <<>>))
               /\ UNCHANGED users
          ELSE IF UserExists(users, uid)
          THEN /\ users' = [users EXCEPT ![uid] = Append(@, emb)]
               /\ last' = Call("add_face_to_user", emb, 0, uid, Res("return", <<>>, 1, <<>>))
          ELSE /\ last' = Call("add_face_to_user", emb, 0, uid, Res("return", <<>>, 0, <<>>))
               /\ UNCHANGED users
    /\ UNCHANGED <<db, ann, sessions, logs>>

StoreAnswers == {"ok", "find_raises", "iter_raises"}
LookupAnswers == {"ok", "raises"}

\* find_best_match dropping the index handle when the index query raised
FindBestMatchCall_DropsIndexOnFailure ==
    /\ last = Idle
    /\ \E q \in QueryVectors, lookup \in LookupAnswers, scan \in StoreAnswers :
       \E knn \in Knn(ann, q, 1) :
          /\ last' = Call("find_best_match", q, 1, 0,
                          FindBestMatch(users, db, ann, q, knn, lookup, scan))
          /\ ann' = IF knn.raised THEN NoIndex ELSE ann
    /\ UNCHANGED <<users, db, sessions, logs>>

FindBestMatchCall ==
    /\ last = Idle
    /\ \E q \in QueryVectors, lookup \in LookupAnswers, scan \in StoreAnswers :
       \E knn \in Knn(ann, q, 1) :
          last' = Call("find_best_match", q, 1, 0,
                       FindBestMatch(users, db, ann, q, knn, lookup, scan))
    /\ UNCHANGED <<users, db, ann, sessions, logs>>

\* verify_user enrolling the query on the identity it was verified against
VerifyUserCall_EnrollsOnVerify ==
    /\ last = Idle
    /\ \E uid \in 1..(Len(users) + 1), q \in QueryVectors, lookup \in LookupAnswers :
          /\ last' = Call("verify_user", q, 0, uid, VerifyUser(users, db, uid, q, lookup))
          /\ users' = IF VerifyUser(users, db, uid, q, lookup).score > 0
                         /\ TotalEmb(users) < MaxEmb
                      THEN [users EXCEPT ![uid] = Append(@, q)]
                      ELSE users
    /\ UNCHANGED <<db, ann, sessions, logs>>

\* verify_user dropping the database handle after a failed lookup
VerifyUserCall_DisconnectsOnFailure ==
    /\ last = Idle
    /\ \E uid \in 1..(Len(users) + 1), q \in QueryVectors, lookup \in LookupAnswers :
          /\ last' = Call("verify_user", q, 0, uid, VerifyUser(users, db, uid, q, lookup))
          /\ db' = IF lookup = "raises" THEN "none" ELSE db
    /\ UNCHANGED <<users, ann, sessions, logs>>

VerifyUserCall ==
    /\ last = Idle
    /\ \E uid \in 1..(Len(users) + 1), q \in QueryVectors, lookup \in LookupAnswers :
          last' = Call("verify_user", q, 0, uid, VerifyUser(users, db, uid, q, lookup))
    /\ UNCHANGED <<users, db, ann, sessions, logs>>

SearchCandidatesCall ==
    /\ last = Idle
    /\ \E q \in QueryVectors, top_k \in 0..MaxK :
          \E knn \in Knn(ann, q, top_k), failAt \in 0..top_k, scan \in StoreAnswers :
             last' = Call("search_candidates", q, top_k, 0,
                          SearchCandidates(users, db, ann, q, top_k, knn, failAt, scan))
    /\ UNCHANGED <<users, db, ann, sessions, logs>>

\* the call's result is handed to its caller
Return ==
    /\ last # Idle
    /\ last' = Idle
    /\ UNCHANGED <<users, db, ann, sessions, logs>>

Next ==
    \/ Connect
    \/ CreateUser
    \/ AddFaceToUser
    \/ FindBestMatchCall
    \/ VerifyUserCall
    \/ SearchCandidatesCall
    \/ Return

Spec == Init /\ [][Next]_vars

\* ------------------------------------------------- verify endpoint
\* utils.DEFAULT_THRESHOLD = 0.6, on the fixed-point scale
DEFAULT_THRESHOLD == 600

\* verify answering with a strict comparison against the threshold
VerifyResponse_StrictlyAbove(score) ==
    [verified |-> score > DEFAULT_THRESHOLD, confidence |-> score]

\* the body verify() answers with for the score verify_user returned
VerifyResponse(score) ==
    [verified |-> score >= DEFAULT_THRESHOLD, confidence |-> score]

\* ------------------------------------------- utils.cosine_similarity
\* cosine dividing by the squared norm of its first argument
CosineSimilarity_NormOfFirst(a, b, eps) ==
    IF Norm(a) * Norm(a) + eps = 0 THEN 0
    ELSE (Dot(a, b) * Scale) \div (Norm(a) * Norm(a) + eps)

\* float(np.dot(a, b) / (np.linalg.norm(a) * np.linalg.norm(b) + 1e-10))
\* for vectors whose components are integers in some unit; eps is the
\* 1e-10 of the denominator in squares of that unit: 0 when the unit is 1
\* (1e-10 is far below the scale's resolution), 1 when the unit is 1e-5
CosineSimilarity(a, b, eps) ==
    IF Norm(a) * Norm(b) + eps = 0 THEN 0
    ELSE (Dot(a, b) * Scale) \div (Norm(a) * Norm(b) + eps)

Zero == <<0, 0>>
SimVectors == {E1, E2, NE1, W, Q3, Zero, <<4, 3>>, <<0, -2>>}
EpsUnits == {0, 1}

\* one call of cosine_similarity(a, b): the arguments are kept in q and
\* ret, the unit's eps in k, the value in score
CosineSimilarityCall ==
    /\ last = Idle
    /\ \E a \in SimVectors, b \in SimVectors, eps \in EpsUnits :
          last' = Call("cosine_similarity", a, eps, 0,
                       IF ShapeOk(a, b)
                       THEN Res("return", <<b>>, CosineSimilarity(a, b, eps), <<>>)
                       ELSE Res("ValueError", <<b>>, 0, <<>>))
    /\ UNCHANGED <<users, db, ann, sessions, logs>>

SimInit == Init /\ users = <<>>

SimNext == CosineSimilarityCall \/ Return

SimSpec == SimInit /\ [][SimNext]_vars

TypeOK ==
    /\ db \in {"none", "up"}
    /\ ann.kind \in {"none", "noop", "hnsw"}
    /\ TotalEmb(users) <= MaxEmb
    /\ \A i \in 1..Len(users) : Len(users[i]) >= 1

\* ------------------------------------------------------------- properties
\* the outcome and value of a finished call
Answer(r) == [outcome |-> r.outcome, ret |-> r.ret]

\* what the exact best-match scan over the current store can answer
ExactBestAnswers(q) == {Answer(NaiveScan(users, q, s, <<>>)) : s \in StoreAnswers}

\* what the exact top-k scan over the current store can answer
ExactTopKAnswers(q, k) == {Answer(NaiveTopK(users, q, k, s, <<>>)) : s \in StoreAnswers}

\* connected, and no index can answer: no handle, or a handle never built
IndexUnavailable == db = "up" /\ ~ann.initialized

Contains(trace, step) == \E i \in 1..Len(trace) : trace[i] = step

\* C1: whenever the approximate index is unavailable (no handle, the no-op
\* backend, or a handle whose build never succeeded), find_best_match and
\* search_candidates answer exactly what the exact scan over the current
\* store answers
C1_FallbackTransparent ==
    IndexUnavailable =>
        /\ last.op = "find_best_match" => Answer(last) \in ExactBestAnswers(last.q)
        /\ last.op = "search_candidates" => Answer(last) \in ExactTopKAnswers(last.q, last.k)

\* an exception was raised on the approximate path of the call
ApproxPathRaised ==
    \/ Contains(last.trace, "knn_raised")
    \/ Contains(last.trace, "lookup_raised")
    \/ Contains(last.trace, "rescore_raised")

\* C2: in find_best_match an exception on the approximate path (knn query,
\* candidate lookup, re-score) is not surfaced: the exact scan runs next and
\* the call answers what that scan answers; it fails only if the scan fails
C2_ApproxFailureFallsBack ==
    (last.op = "find_best_match" /\ ApproxPathRaised) =>
        /\ last.trace[Len(last.trace)] \in {"scan_ok", "scan_raised"}
        /\ Answer(last) \in ExactBestAnswers(last.q)
        /\ last.trace[Len(last.trace)] = "scan_ok" =>
              /\ last.outcome = "return"
              /\ last.ret = ScanBest(AllEmbeddingsWithUser(users), last.q, <<>>)

\* C2 witness: the candidate lookup raised and the call still returned the
\* exact scan's match
C2_Witness ==
    /\ last.op = "find_best_match"
    /\ last.trace = <<"knn_ok", "lookup_raised", "scan_ok">>
    /\ last.outcome = "return"
    /\ Len(last.ret) = 1

\* the largest cosine similarity between q and the faces of one identity
MaxSimOf(faces, q) ==
    CHOOSE m \in {Sim(q, faces[i]) : i \in 1..Len(faces)} :
        \A i \in 1..Len(faces) : Sim(q, faces[i]) <= m

\* find_best_match answered from the approximate path: candidate re-scored
Rescored ==
    /\ last.op = "find_best_match"
    /\ last.trace = <<"knn_ok", "lookup_ok", "rescore_ok">>

\* C3 (as claimed): when the index yields a candidate, the reported
\* confidence is the maximum precise cosine similarity between the query
\* and all embeddings the candidate currently has in the store
C3_ConfidenceIsMaxSim ==
    Rescored =>
        /\ Len(last.ret) = 1
        /\ last.ret[1].confidence = MaxSimOf(users[last.ret[1].user_id], last.q)

\* C3 (amended): the reported confidence is the larger of 0.0 and that
\* maximum, taken over the candidate's current embeddings in the store
C3_ConfidenceIsFlooredMaxSim ==
    Rescored =>
        /\ Len(last.ret) = 1
        /\ \E i \in 1..Len(ann.points) : ann.points[i].id = last.ret[1].user_id
        /\ last.ret[1].confidence =
              Max(0, MaxSimOf(users[last.ret[1].user_id], last.q))

\* C3 witness: the candidate was re-scored to a confidence that no indexed
\* point of the snapshot has as its approximate score: it comes from an
\* embedding added after the index was built
C3_Witness ==
    /\ Rescored
    /\ last.ret[1].confidence > 0
    /\ \A i \in 1..Len(ann.points) :
          ApproxSim(last.q, ann.points[i].vec) # last.ret[1].confidence

\* the store was unreachable at some point of a find_best_match or
\* verify_user call: a lookup raised, or the scan's cursor did
StoreFailedDuringCall ==
    /\ last.op \in {"find_best_match", "verify_user"}
    /\ \/ Contains(last.trace, "lookup_raised")
       \/ /\ Contains(last.trace, "scan_raised")
          /\ last.outcome \in {"DBUnavailable", "PyMongoError"}

\* C4: whenever the store is unreachable during find_best_match or
\* verify_user, the call fails with DBUnavailable: it never returns, and
\* the failure is never swallowed or surfaced as another error
C4_StoreFailurePropagates ==
    StoreFailedDuringCall => last.outcome = "DBUnavailable"

\* Alice (identity 1) enrolled with E1, then Bob (identity 2) with E2
AliceThenBob == users = <<<<E1>>, <<E2>>>>

\* find_best_match(E1) is Alice with confidence 1.0, find_best_match(E2) is Bob
ScenarioAnswer ==
    /\ last.q = E1 => last.ret = <<Match(1, Scale)>>
    /\ last.q = E2 => Len(last.ret) = 1 /\ last.ret[1].user_id = 2

ScenarioQuery ==
    /\ AliceThenBob
    /\ last.op = "find_best_match"
    /\ last.outcome = "return"
    /\ last.q \in {E1, E2}

\* C5 (as claimed): the scenario's answers hold wherever the index build
\* falls relative to the two enrollments; stated for the backends that
\* give connect() a working index or none at all
C5_ScenarioAnyPlacement ==
    (ScenarioQuery /\ (ann.kind = "none" \/ ann.initialized)) => ScenarioAnswer

\* the snapshot holds a point of identity uid
Indexed(uid) == \E i \in 1..Len(ann.points) : ann.points[i].id = uid

\* C5 (amended): the scenario's answers hold when no index handle exists
\* (the build found an empty store, before both enrollments) and when a
\* built index holds both identities (the build came after both)
C5_ScenarioFreshOrNoIndex ==
    (ScenarioQuery /\ (ann.kind = "none" \/ (ann.initialized /\ Indexed(1) /\ Indexed(2))))
        => ScenarioAnswer

\* C5 witness: Bob is found for E2 through an index built after both
\* enrollments
C5_Witness ==
    /\ ScenarioQuery
    /\ ann.initialized /\ Indexed(1) /\ Indexed(2)
    /\ last.q = E2
    /\ last.trace = <<"knn_ok", "lookup_ok", "rescore_ok">>
    /\ last.ret = <<Match(2, Scale)>>

VerifyReturned == last.op = "verify_user" /\ last.outcome = "return"

\* C6 (as claimed): verify_user returns the maximum cosine similarity
\* between q and the identity's embeddings, or 0.0 for an unknown identity,
\* and the result is never negative
C6_VerifyIsMaxSim ==
    VerifyReturned =>
        /\ last.score = IF UserExists(users, last.uid)
                        THEN MaxSimOf(users[last.uid], last.q) ELSE 0
        /\ last.score >= 0

\* C6 (amended): verify_user returns the larger of 0.0 and that maximum, or
\* 0.0 for an unknown identity, in every state of the index handle
C6_VerifyIsFlooredMaxSim ==
    VerifyReturned =>
        /\ last.score = IF UserExists(users, last.uid)
                        THEN Max(0, MaxSimOf(users[last.uid], last.q)) ELSE 0
        /\ last.score >= 0
        /\ last.trace \in {<<"lookup_absent">>, <<"lookup_ok", "rescore_ok">>}

\* C6 witness: with a built, stale index in place verify_user reports 0.0
\* for an identity all of whose embeddings score below zero
C6_Witness ==
    /\ VerifyReturned
    /\ ann.initialized /\ Len(ann.points) < TotalEmb(users)
    /\ UserExists(users, last.uid)
    /\ MaxSimOf(users[last.uid], last.q) < 0
    /\ last.score = 0

\* the score verify_user reports for identity uid and query q on store us
VerifyScore(us, uid, q) == VerifyUser(us, "up", uid, q, "ok").score

\* queries of the stored dimension
PlaneQueries == {q \in QueryVectors : Len(q) = 2}

\* this step is an add_face_to_user call that appended its embedding
FaceAdded ==
    /\ last'.op = "add_face_to_user"
    /\ last'.outcome = "return"
    /\ last'.score = 1

\* embedding e is closer to q than every embedding in faces
CloserThanAll(faces, q, e) == \A i \in 1..Len(faces) : Sim(q, e) > Sim(q, faces[i])

\* C7 (as claimed): adding an embedding never lowers verify_user's score,
\* and adding one closer to the query than all existing embeddings of the
\* identity strictly raises it
C7_VerifyMonotonic ==
    [][FaceAdded =>
         \A q \in PlaneQueries :
            /\ VerifyScore(users', last'.uid, q) >= VerifyScore(users, last'.uid, q)
            /\ CloserThanAll(users[last'.uid], q, last'.q) =>
                  VerifyScore(users', last'.uid, q) > VerifyScore(users, last'.uid, q)]_vars

\* C7 (amended): adding an embedding never lowers the score, and adding one
\* closer to the query than all existing ones strictly raises it when the
\* new embedding's similarity to the query is above 0.0; otherwise the
\* score stays at the 0.0 floor
C7_VerifyMonotonicAboveFloor ==
    [][FaceAdded =>
         \A q \in PlaneQueries :
            /\ VerifyScore(users', last'.uid, q) >= VerifyScore(users, last'.uid, q)
            /\ (CloserThanAll(users[last'.uid], q, last'.q) /\ Sim(q, last'.q) > 0) =>
                  VerifyScore(users', last'.uid, q) > VerifyScore(users, last'.uid, q)
            /\ (CloserThanAll(users[last'.uid], q, last'.q) /\ Sim(q, last'.q) <= 0) =>
                  VerifyScore(users', last'.uid, q) = 0]_vars

\* the faces identity uid had before its latest one was appended
Earlier(uid) == SubSeq(users[uid], 1, Len(users[uid]) - 1)

\* C7 witness: an embedding closer to some query than all earlier ones was
\* just added, and the identity's score for that query went up
C7_Witness ==
    /\ last.op = "add_face_to_user" /\ last.outcome = "return" /\ last.score = 1
    /\ \E q \in PlaneQueries :
          /\ CloserThanAll(Earlier(last.uid), q, last.q)
          /\ VerifyScore(users, last.uid, q) >
                VerifyScore([users EXCEPT ![last.uid] = Earlier(last.uid)], last.uid, q)

SearchReturned == last.op = "search_candidates" /\ last.outcome = "return"

\* search_candidates answered from the approximate path
FromIndex == last.op = "search_candidates" /\ last.trace = <<"knn_ok", "lookup_ok">>

\* C8: results of the approximate path are returned as they are, each with
\* the approximate similarity of an indexed point of its identity as
\* confidence; when that path yields nothing, is unavailable or raises, the
\* answer is the exact scan's top-k and nothing else
C8_ApproxAsIsElseExact ==
    /\ FromIndex =>
          /\ last.outcome = "return"
          /\ Len(last.ret) \in 1..last.k
          /\ \A i \in 1..Len(last.ret) :
                \E j \in 1..Len(ann.points) :
                   /\ ann.points[j].id = last.ret[i].user_id
                   /\ last.ret[i].confidence = ApproxSim(last.q, ann.points[j].vec)
    /\ (last.op = "search_candidates" /\ db = "up" /\ ~FromIndex) =>
          /\ Answer(last) \in ExactTopKAnswers(last.q, last.k)
          /\ last.outcome = "return" =>
                last.ret = NaiveTopK(users, last.q, last.k, "ok", <<>>).ret

\* C8 witness: an approximate result whose confidence is not what a precise
\* re-score of its identity would report
C8_Witness ==
    /\ FromIndex
    /\ \E i \in 1..Len(last.ret) :
          last.ret[i].confidence # BestScoreOver(users[last.ret[i].user_id], last.q, 0)

\* search_candidates answered by the naive heap-based scan
ExactTopKReturned == SearchReturned /\ last.trace[Len(last.trace)] = "scan_ok"

\* C9: the exact top-k scan returns at most k entries, in non-increasing
\* order of confidence
C9_TopKBoundedSorted ==
    ExactTopKReturned =>
        /\ Len(last.ret) <= last.k
        /\ \A i \in 1..(Len(last.ret) - 1) :
              last.ret[i].confidence >= last.ret[i + 1].confidence

\* C9 witness: more embeddings than k, and k entries of different
\* confidence came back
C9_Witness ==
    /\ ExactTopKReturned
    /\ last.k >= 2
    /\ TotalEmb(users) > last.k
    /\ Len(last.ret) = last.k
    /\ last.ret[1].confidence > last.ret[2].confidence

\* every enrolled identity appears in the returned list
AllIdentitiesReturned ==
    \A uid \in 1..Len(users) : \E i \in 1..Len(last.ret) : last.ret[i].user_id = uid

\* C10 (as claimed): for k >= the number of distinct identities the exact
\* top-k scan returns all of them, also when an identity holds several
\* embeddings
C10_AllIdentitiesForLargeK ==
    (ExactTopKReturned /\ last.k >= Len(users)) => AllIdentitiesReturned

\* C10 (amended): for k >= the number of stored embeddings every result of
\* the exact top-k scan holds one entry per embedding and so names every
\* enrolled identity
C10_AllIdentitiesForKAboveEmbeddings ==
    (ExactTopKReturned /\ last.k >= TotalEmb(users)) =>
        /\ AllIdentitiesReturned
        /\ Len(last.ret) = TotalEmb(users)

\* C10 witness: two identities, one of them with several embeddings, all
\* returned
C10_Witness ==
    /\ ExactTopKReturned
    /\ last.k >= TotalEmb(users)
    /\ Len(users) >= 2
    /\ \E uid \in 1..Len(users) : Len(users[uid]) >= 2
    /\ AllIdentitiesReturned

\* find_best_match answered by the naive scan
ExactBestReturned ==
    /\ last.op = "find_best_match"
    /\ last.outcome = "return"
    /\ last.trace[Len(last.trace)] = "scan_ok"

\* position, in the store's iteration order, of the first embedding whose
\* similarity to q is the highest of all
FirstBestPosition(q) ==
    CHOOSE i \in 1..Len(AllEmbeddingsWithUser(users)) :
        /\ \A j \in 1..Len(AllEmbeddingsWithUser(users)) :
              Sim(q, AllEmbeddingsWithUser(users)[j].vec)
                 <= Sim(q, AllEmbeddingsWithUser(users)[i].vec)
        /\ \A j \in 1..(i - 1) :
              Sim(q, AllEmbeddingsWithUser(users)[j].vec)
                 < Sim(q, AllEmbeddingsWithUser(users)[i].vec)

\* C11: the exact best-match scan keeps the identity of the single
\* highest-scoring embedding, and among embeddings that tie for the highest
\* score the first in the store's iteration order wins
C11_FirstBestWins ==
    (ExactBestReturned /\ TotalEmb(users) > 0) =>
        last.ret =
           <<Match(AllEmbeddingsWithUser(users)[FirstBestPosition(last.q)].id,
                   Sim(last.q, AllEmbeddingsWithUser(users)[FirstBestPosition(last.q)].vec))>>

\* C11 witness: two identities tie for the highest score and the one
\* enrolled first is returned
C11_Witness ==
    /\ ExactBestReturned
    /\ Len(users) >= 2
    /\ last.ret = <<Match(1, Sim(last.q, users[1][1]))>>
    /\ \E uid \in 2..Len(users) : \E i \in 1..Len(users[uid]) :
          Sim(last.q, users[uid][i]) = last.ret[1].confidence

\* what find_best_match(q) can return in the current state when the store
\* answers and the index query does not raise
BestMatchReturns(q) ==
    {FindBestMatch(users, db, ann, q, knn, "ok", "ok").ret :
        knn \in {r \in Knn(ann, q, 1) : ~r.raised}}

\* the store was reachable throughout the call (no lookup or cursor failed)
StoreAnswered ==
    /\ db = "up"
    /\ ~Contains(last.trace, "lookup_raised")
    /\ last.outcome \notin {"DBUnavailable", "PyMongoError"}

\* C12: for every query and k >= 1 over a store with at least k embeddings
\* search_candidates returns exactly k results and its first entry is the
\* identity and confidence find_best_match reports for the same query, also
\* when scores tie and when an index snapshot is in place
C12_TopEntryIsBestMatch ==
    (/\ last.op = "search_candidates" /\ StoreAnswered
     /\ Len(last.q) = 2 /\ last.k >= 1 /\ TotalEmb(users) >= last.k) =>
        /\ last.outcome = "return"
        /\ Len(last.ret) = last.k
        /\ \A best \in BestMatchReturns(last.q) : best = <<last.ret[1]>>

\* C13: find_best_match on a connected store with no identities enrolled
\* returns absent (None) and does not raise, whatever the query
C13_EmptyStoreReturnsAbsent ==
    (last.op = "find_best_match" /\ users = <<>> /\ StoreAnswered) =>
        /\ last.outcome = "return"
        /\ last.ret = <<>>

\* C13 witness: absent for a query on the empty, connected store
C13_Witness ==
    /\ last.op = "find_best_match" /\ users = <<>> /\ StoreAnswered
    /\ last.q = Q3
    /\ last.outcome = "return" /\ last.ret = <<>>

\* the call was served by the exact scan
ServedByExactScan ==
    /\ last.trace # <<>>
    /\ last.trace[Len(last.trace)] \in {"scan_ok", "scan_raised"}

\* C14: when constructing the index fails during connect() (backend
\* missing, or build raises) connect() does not raise, the engine is left
\* with the index unavailable so that queries are served by the exact scan,
\* and no later request rebuilds or re-probes the index
C14_IndexFailureDegradesToExactScan ==
    [][/\ (last'.op = "connect" => last'.outcome = "return")
       /\ (/\ IndexUnavailable'
           /\ last'.op \in {"find_best_match", "search_candidates"})
             => ServedByExactScan'
       /\ (db = "up" => ann' = ann)]_vars

\* C15: find_best_match and search_candidates never clear, replace or
\* mutate the index handle, also when the index query raised, so the next
\* request queries the same index
C15_RequestsKeepIndex ==
    [][last'.op \in {"find_best_match", "search_candidates"} => ann' = ann]_vars

\* C15 witness: the index query of a request raised and the built index is
\* still in place
C15_Witness ==
    /\ last.op \in {"find_best_match", "search_candidates"}
    /\ Contains(last.trace, "knn_raised")
    /\ ann.initialized /\ Len(ann.points) > 0

\* C16: the snapshot is built only by connect(), from a full scan of the
\* store, and no other operation (create_user and add_face_to_user
\* included) changes it, so the indexed points stay the (identity,
\* embedding) pairs that existed at connect time
C16_SnapshotFixedAtConnect ==
    [][/\ (last'.op = "connect" /\ ann'.initialized)
             => ann'.points = AllEmbeddingsWithUser(users')
       /\ (last'.op # "connect" => ann' = ann)]_vars

\* C16 witness: a face was added after the snapshot was built and the
\* snapshot does not hold it
C16_Witness ==
    /\ last.op = "add_face_to_user" /\ last.outcome = "return" /\ last.score = 1
    /\ ann.initialized
    /\ Len(ann.points) < TotalEmb(users)

\* C17: every match find_best_match or search_candidates reports has a
\* confidence in [0, 1], never a negative one, on the approximate and on
\* the exact path
C17_ConfidenceInUnitRange ==
    (last.op \in {"find_best_match", "search_candidates"} /\ last.outcome = "return") =>
        \A i \in 1..Len(last.ret) :
            last.ret[i].confidence >= 0 /\ last.ret[i].confidence <= Scale

\* C18: when the approximate path of find_best_match and the exact scan
\* select the same identity for the same store and query they report the
\* same confidence, also when the best similarity is negative
C18_OneScoringSemantics ==
    (/\ Rescored
     /\ ScanBest(AllEmbeddingsWithUser(users), last.q, <<>>) # <<>>
     /\ ScanBest(AllEmbeddingsWithUser(users), last.q, <<>>)[1].user_id
           = last.ret[1].user_id) =>
        ScanBest(AllEmbeddingsWithUser(users), last.q, <<>>)[1].confidence
           = last.ret[1].confidence

\* a query call whose query differs in length from the stored embeddings
MismatchedQuery ==
    /\ last.op \in {"find_best_match", "verify_user", "search_candidates"}
    /\ TotalEmb(users) > 0
    /\ \A i \in 1..Len(AllEmbeddingsWithUser(users)) :
          Len(AllEmbeddingsWithUser(users)[i].vec) # Len(last.q)

\* the call ended before any stored or indexed embedding was compared: the
\* handle was never built, or the identity to verify does not exist
NothingCompared ==
    /\ last.ret = <<>> /\ last.score = 0
    /\ last.trace \in {<<"knn_empty">>, <<"lookup_absent">>}

\* C19: a query of another length than the stored embeddings makes
\* find_best_match, search_candidates and verify_user fail with an error
\* whenever a stored embedding is compared; no match, absent or score comes
\* back from such a comparison
C19_MismatchedQueryFails ==
    (MismatchedQuery /\ last.outcome = "return") => NothingCompared

\* C19 witness: a three-component query against a built index over
\* two-component embeddings ends in the scan's ValueError
C19_Witness ==
    /\ MismatchedQuery /\ last.op = "find_best_match"
    /\ ann.initialized
    /\ last.outcome = "ValueError"
    /\ last.trace = <<"knn_raised", "scan_raised">>

\* ------------------------------------------------------- login endpoint
\* db_unavailable_handler: DBUnavailable becomes a 503 response
DbUnavailableHandler == [status |-> 503, body |-> "database unavailable"]

SessionAnswers == {"ok", "raises", "log_raises"}

\* login(image) once an embedding was extracted: r is what
\* find_best_match did, session what the store does when the session
\* document and then the log entry are inserted; an exception other than
\* DBUnavailable has no handler and leaves as a 500
Login(r, session) ==
    IF r.outcome = "DBUnavailable" THEN DbUnavailableHandler
    ELSE IF r.outcome # "return" THEN [status |-> 500, body |-> "internal server error"]
    ELSE IF r.ret = <<>> THEN [status |-> 200, body |-> "no match"]
    ELSE IF session # "ok" THEN DbUnavailableHandler
    ELSE [status |-> 200, body |-> "match"]

\* the store was unreachable at some point of a login served by the call
StoreUnreachable(session) ==
    \/ db = "none"
    \/ StoreFailedDuringCall
    \/ last.outcome = "return" /\ last.ret # <<>> /\ session # "ok"

\* C20: login answers 503 'database unavailable' exactly when the store
\* was unreachable, and answers the no-match response only when
\* find_best_match completed and found no identity
C20_LoginTellsFailureFromNoMatch ==
    last.op = "find_best_match" =>
        \A session \in SessionAnswers :
            /\ Login(last, session) = DbUnavailableHandler <=> StoreUnreachable(session)
            /\ Login(last, session).body = "no match"
                  => last.outcome = "return" /\ last.ret = <<>>

\* a is an initial segment of b
IsPrefix(a, b) == Len(a) <= Len(b) /\ \A i \in 1..Len(a) : a[i] = b[i]

\* C21: every enrolled identity has at least one embedding, and no step
\* removes or replaces an embedding: identities are only added and each
\* identity's embedding sequence only grows by appending
C21_EmbeddingsOnlyGrow ==
    [][/\ \A uid \in 1..Len(users) : Len(users[uid]) >= 1
       /\ \A uid \in 1..Len(users') : Len(users'[uid]) >= 1
       /\ Len(users) <= Len(users')
       /\ \A uid \in 1..Len(users) : IsPrefix(users[uid], users'[uid])]_vars

\* C21 witness: an identity that already had an embedding was given another
C21_Witness ==
    /\ last.op = "add_face_to_user" /\ last.outcome = "return" /\ last.score = 1
    /\ Len(users[last.uid]) >= 2
    /\ users[last.uid][Len(users[last.uid])] = last.q
    /\ users[last.uid][1] # last.q

\* C22: find_best_match, search_candidates and verify_user leave the
\* identities and their embeddings as they were, on every path they take
C22_QueriesReadOnly ==
    [][last'.op \in {"find_best_match", "search_candidates", "verify_user"}
          => users' = users]_vars

\* C22 witness: a query that went through the approximate path, failed
\* there and fell back, over a store that holds embeddings
C22_Witness ==
    /\ last.op \in {"find_best_match", "search_candidates"}
    /\ TotalEmb(users) > 0
    /\ Contains(last.trace, "lookup_raised")
    /\ Contains(last.trace, "scan_ok")

\* how many steps of a trace are among the given ones
Count(trace, steps) == Cardinality({i \in 1..Len(trace) : trace[i] \in steps})

IndexSteps == {"knn_ok", "knn_raised", "knn_empty"}
ScanSteps == {"scan_ok", "scan_raised"}
ApproxFailures == {"knn_raised", "lookup_raised", "rescore_raised"}

\* C23: within one find_best_match or search_candidates call the index is
\* queried at most once and the exact scan started at most once, a failure
\* of the approximate path leads to exactly one fallback scan, and a
\* failure of the scan ends the call with that error
C23_NoRetry ==
    last.op \in {"find_best_match", "search_candidates"} =>
        /\ Count(last.trace, IndexSteps) <= 1
        /\ Count(last.trace, ScanSteps) <= 1
        /\ Count(last.trace, ApproxFailures) > 0
              => Count(last.trace, ApproxFailures) = 1 /\ Count(last.trace, ScanSteps) = 1
        /\ Contains(last.trace, "scan_raised")
              => /\ last.trace[Len(last.trace)] = "scan_raised"
                 /\ last.outcome # "return"

\* C23 witness: the index query raised, the one fallback scan hit a store
\* failure and the call ended with it
C23_Witness ==
    /\ last.op = "find_best_match"
    /\ last.trace = <<"knn_raised", "scan_raised">>
    /\ last.outcome = "DBUnavailable"

\* C24: the index is built in one place only, the single connect() of
\* startup, so no two builds overlap, and a query never finds an index
\* handle whose build has not completed
C24_QueriesSeeCompletedBuild ==
    [][/\ ann' # ann => last'.op = "connect" /\ db = "none"
       /\ last'.op \in {"find_best_match", "search_candidates", "verify_user"}
             => ann'.kind = "none" \/ ann'.initialized]_vars

\* the result of the call in flight
LastRes == Res(last.outcome, last.ret, last.score, last.trace)

\* the call in flight, made again in the current state with the same
\* arguments, can have the same result
Replayable ==
    \/ /\ last.op = "find_best_match"
       /\ \E knn \in Knn(ann, last.q, 1), lookup \in LookupAnswers, scan \in StoreAnswers :
             FindBestMatch(users, db, ann, last.q, knn, lookup, scan) = LastRes
    \/ /\ last.op = "verify_user"
       /\ \E lookup \in LookupAnswers :
             VerifyUser(users, db, last.uid, last.q, lookup) = LastRes
    \/ /\ last.op = "search_candidates"
       /\ \E knn \in Knn(ann, last.q, last.k), failAt \in 0..last.k, scan \in StoreAnswers :
             SearchCandidates(users, db, ann, last.q, last.k, knn, failAt, scan) = LastRes

VerifyScored ==
    /\ VerifyReturned
    /\ last.trace = <<"lookup_ok", "rescore_ok">>

\* C29: the engine applies no threshold (the exact scan returns its best
\* match whatever the score, verify_user its score) and the verify endpoint
\* reports verified exactly when the score is >= 0.6: a query orthogonal to
\* all the identity's embeddings is not verified, one of the identity's own
\* embeddings is
C29_ThresholdOnlyAtEndpoint ==
    /\ (ExactBestReturned /\ TotalEmb(users) > 0) => last.ret # <<>>
    /\ VerifyScored =>
          /\ VerifyResponse(last.score).confidence = last.score
          /\ VerifyResponse(last.score).verified
                <=> \E i \in 1..Len(users[last.uid]) :
                       Sim(last.q, users[last.uid][i]) >= DEFAULT_THRESHOLD
          /\ (\A i \in 1..Len(users[last.uid]) : Dot(last.q, users[last.uid][i]) = 0)
                => ~VerifyResponse(last.score).verified
          /\ (\E i \in 1..Len(users[last.uid]) : users[last.uid][i] = last.q)
                => VerifyResponse(last.score).verified

\* C29 witness: a score exactly at the threshold is reported verified
C29_Witness ==
    /\ VerifyScored
    /\ last.score = DEFAULT_THRESHOLD
    /\ VerifyResponse(last.score).verified

\* cosine_similarity returned a value
SimilarityReturned == last.op = "cosine_similarity" /\ last.outcome = "return"

\* within one thousandth of 1.0
NearOne(score) == score >= Scale - 1 /\ score <= Scale + 1

\* C30 (as claimed): similarity(a, b) = similarity(b, a) for vectors of
\* equal length, and similarity(a, a) is about 1.0 for every non-zero a
C30_SymmetricReflexive ==
    SimilarityReturned =>
        /\ last.score = CosineSimilarity(last.ret[1], last.q, last.k)
        /\ (last.ret[1] = last.q /\ Norm(last.q) # 0) => NearOne(last.score)

\* C30 (amended): similarity(a, b) = similarity(b, a) for vectors of equal
\* length, and similarity(a, a) is about 1.0 for every non-zero a whose
\* squared norm is large against the 1e-10 of the denominator
C30_SymmetricReflexiveAboveEps ==
    SimilarityReturned =>
        /\ last.score = CosineSimilarity(last.ret[1], last.q, last.k)
        /\ (last.ret[1] = last.q /\ Norm(last.q) # 0 /\ last.k = 0)
              => NearOne(last.score)

\* C30 witness: two different vectors of different norms, not orthogonal
C30_Witness ==
    /\ SimilarityReturned
    /\ last.q = W /\ last.ret = <<E1>> /\ last.k = 0
    /\ last.score = DEFAULT_THRESHOLD

\* ------------------------------------------------------ sessions
\* most session documents the sessions collection is let to hold when the
\* session functions are called directly
MaxDocs == 3

\* expires_at = None
NoExpiry == -1

\* instants of the clock, and the expires_at of a session that has one
Instants == 0..2
ExpiresAt == 1

\* the identities sessions are issued to
SessionUsers == 1..2

\* the document create_session_with_expiry inserts
SessionDoc(uid, expires_at) ==
    [user_id |-> uid, revoked |-> FALSE, expires_at |-> expires_at]

\* what the driver hands back for a stored datetime: MongoClient(uri)
\* decodes dates without tzinfo ("naive") unless the uri asks for tz_aware
\* ("aware"); expires_at was written with tzinfo UTC
Decodings == {"naive", "aware"}

\* db.is_session_active(session_id) at the instant now: "true", "false",
\* or the exception it raises.  find_one failing: DBUnavailable; no
\* document, or a revoked one: False; no expiry: True; else expires_at >
\* now with now = datetime.now(timezone.utc), which raises TypeError when
\* expires_at came back without tzinfo
SessionActive(docs, sid, now, tz, store) ==
    IF store = "raises" THEN "DBUnavailable"
    ELSE IF sid \notin 1..Len(docs) THEN "false"
    ELSE IF docs[sid].revoked THEN "false"
    ELSE IF docs[sid].expires_at = NoExpiry THEN "true"
    ELSE IF tz = "naive" THEN "TypeError"
    ELSE IF docs[sid].expires_at > now THEN "true"
    ELSE "false"

\* the payloads decode_access_token yields: None (here <<>>) for what is no
\* valid token, else the claims; session_id 0 is a token without one
Payloads ==
    {<<>>} \cup {<<[user_id |-> u, session_id |-> s]>> :
                    u \in SessionUsers, s \in 0..MaxDocs}

Auth(status, uid, trace) == [status |-> status, user_id |-> uid, trace |-> trace]

\* get_current_user after decode_access_token: 401 without a payload;
\* with a session id in it, is_session_active decides (DBUnavailable is
\* answered 503 by its handler, any other exception 500, False 401); then
\* get_user_by_id, 401 when there is no such user.  fail names the store
\* call that raises DBUnavailable (1 is_session_active, 2 get_user_by_id);
\* the trace lists the store calls made
CurrentUser(us, docs, payload, now, tz, fail) ==
    IF payload = <<>> THEN Auth("401", 0, <<>>)
    ELSE LET sid == payload[1].session_id
             active == SessionActive(docs, sid, now, tz,
                                     IF fail = 1 THEN "raises" ELSE "ok")
             checked == IF sid # 0 THEN <<"session_check">> ELSE <<>>
         IN  IF sid # 0 /\ active = "DBUnavailable" THEN Auth("503", 0, checked)
             ELSE IF sid # 0 /\ active = "TypeError" THEN Auth("500", 0, checked)
             ELSE IF sid # 0 /\ active = "false" THEN Auth("401", 0, checked)
             ELSE IF fail = 2 THEN Auth("503", 0, checked \o <<"user_lookup">>)
             ELSE IF ~UserExists(us, payload[1].user_id)
                  THEN Auth("401", 0, checked \o <<"user_lookup">>)
             ELSE Auth("ok", payload[1].user_id, checked \o <<"user_lookup">>)

\* the sessions update_many's query selects: of that user, not revoked,
\* and not the excluded one when one is given (0: None)
RevokeAllMatches(docs, uid, exclude) ==
    {i \in 1..Len(docs) :
        /\ docs[i].user_id = uid
        /\ ~docs[i].revoked
        /\ (exclude # 0 => i # exclude)}

\* revoke_all_user_sessions that forgets the exclusion
RevokeAllUserSessions_NoExclusion(docs, uid, exclude) ==
    [docs |-> [i \in 1..Len(docs) |->
                  IF i \in RevokeAllMatches(docs, uid, 0)
                  THEN [docs[i] EXCEPT !.revoked = TRUE] ELSE docs[i]],
     count |-> Cardinality(RevokeAllMatches(docs, uid, 0))]

\* revoke_all_user_sessions(user_id, exclude_session_id) when the store
\* answers: the collection afterwards and res.modified_count
RevokeAllUserSessions(docs, uid, exclude) ==
    [docs |-> [i \in 1..Len(docs) |->
                  IF i \in RevokeAllMatches(docs, uid, exclude)
                  THEN [docs[i] EXCEPT !.revoked = TRUE] ELSE docs[i]],
     count |-> Cardinality(RevokeAllMatches(docs, uid, exclude))]

\* a store call without _ensure_db in front of it
StoreCall_NoEnsure(dbh, store) == store

\* _ensure_db() and then the store call of a session function: without a
\* database handle DBUnavailable is raised before the store is touched
StoreCall(dbh, store) == IF dbh = "none" THEN "raises" ELSE store

\* create_session_with_expiry(user_id, expires_minutes): insert_one
\* appends the document, or the store raises
CreateSessionCall ==
    /\ last = Idle
    /\ Len(sessions) < MaxDocs
    /\ \E uid \in SessionUsers, exp \in {NoExpiry, ExpiresAt}, store \in {"ok", "raises"} :
          IF StoreCall(db, store) = "raises"
          THEN /\ last' = Call("create_session_with_expiry", <<>>, 0, uid,
                               Res("DBUnavailable", <<>>, 0, <<>>))
               /\ UNCHANGED sessions
          ELSE /\ sessions' = Append(sessions, SessionDoc(uid, exp))
               /\ last' = Call("create_session_with_expiry", <<>>, Len(sessions) + 1, uid,
                               Res("return", <<>>, 0, <<>>))
    /\ UNCHANGED <<users, db, ann, logs>>

\* revoke_session(session_id): update_one sets revoked on the document
\* with that id; the value is matched_count > 0
RevokeSessionCall ==
    /\ last = Idle
    /\ \E sid \in 0..MaxDocs, store \in {"ok", "raises"} :
          IF StoreCall(db, store) = "raises"
          THEN /\ last' = Call("revoke_session", <<>>, sid, 0,
                               Res("DBUnavailable", <<>>, 0, <<>>))
               /\ UNCHANGED sessions
          ELSE IF sid \in 1..Len(sessions)
          THEN /\ sessions' = [sessions EXCEPT ![sid].revoked = TRUE]
               /\ last' = Call("revoke_session", <<>>, sid, 0,
                               Res("return", <<TRUE>>, 0, <<>>))
          ELSE /\ last' = Call("revoke_session", <<>>, sid, 0,
                               Res("return", <<FALSE>>, 0, <<>>))
               /\ UNCHANGED sessions
    /\ UNCHANGED <<users, db, ann, logs>>

\* is_session_active(session_id): the instant of the call is kept in
\* score, the value in ret
IsSessionActiveCall ==
    /\ last = Idle
    /\ \E sid \in 0..MaxDocs, now \in Instants, tz \in Decodings,
          store \in {"ok", "raises"} :
          LET active == SessionActive(sessions, sid, now, tz, StoreCall(db, store))
          IN  last' = Call("is_session_active", <<>>, sid, 0,
                           IF active \in {"true", "false"}
                           THEN Res("return", <<active = "true">>, now, <<>>)
                           ELSE Res(active, <<>>, now, <<>>))
    /\ UNCHANGED <<users, db, ann, sessions, logs>>

\* revoke_all_user_sessions(user_id, exclude_session_id): the excluded
\* session is kept in k, the count returned in score
RevokeAllUserSessionsCall ==
    /\ last = Idle
    /\ \E uid \in SessionUsers, exclude \in 0..MaxDocs, store \in {"ok", "raises"} :
          IF StoreCall(db, store) = "raises"
          THEN /\ last' = Call("revoke_all_user_sessions", <<>>, exclude, uid,
                               Res("DBUnavailable", <<>>, 0, <<>>))
               /\ UNCHANGED sessions
          ELSE LET r == RevokeAllUserSessions(sessions, uid, exclude)
               IN  /\ sessions' = r.docs
                   /\ last' = Call("revoke_all_user_sessions", <<>>, exclude, uid,
                                   Res("return", <<>>, r.count, <<>>))
    /\ UNCHANGED <<users, db, ann, logs>>

\* get_current_user for a decoded token: the token's session id is kept
\* in k, its user in uid, the instant in score, the status in outcome
GetCurrentUserCall ==
    /\ last = Idle
    /\ \E payload \in Payloads, now \in Instants, tz \in Decodings, fail \in 0..2 :
          LET auth == CurrentUser(users, sessions, payload, now, tz, fail)
          IN  last' = Call("get_current_user", payload,
                           IF payload = <<>> THEN 0 ELSE payload[1].session_id,
                           IF payload = <<>> THEN 0 ELSE payload[1].user_id,
                           Res(auth.status, <<>>, now, auth.trace))
    /\ UNCHANGED <<users, db, ann, sessions, logs>>

\* a connected store with one identity and no session
SessInit ==
    /\ users = <<<<E1>>>>
    /\ db = "up"
    /\ ann = NoIndex
    /\ last = Idle
    /\ sessions = <<>>
    /\ logs = 0

SessNext ==
    \/ CreateSessionCall
    \/ RevokeSessionCall
    \/ IsSessionActiveCall
    \/ RevokeAllUserSessionsCall
    \/ GetCurrentUserCall
    \/ Return

SessSpec == SessInit /\ [][SessNext]_vars

\* ------------------------------------------------------ HTTP endpoints
\* the most sessions and log entries the requests are let to create
MaxSessions == 1
MaxLogs == 3

\* embeddings.get_embedding(contents): an embedding, or None (here <<>>)
\* when no face is found in the upload
NoFace == <<>>
Uploads == StoredVectors \cup {NoFace}

\* a bearer token is the session it was issued for (its payload is that
\* session's user_id and session_id); 0 is a string that is no token
Tokens == 0..Len(sessions)

\* utils.decode_access_token: None for what is no token and for a token
\* past its exp, which is the lifetime the session was given
DecodeAccessToken(sess, t) ==
    IF t = 0 \/ sess[t].status = "expired" THEN <<>>
    ELSE <<[user_id |-> sess[t].user_id, session_id |-> t]>>

\* the sessions collection behind the tokens: a session that is not
\* revoked is a document with an expiry, "revoked" one with revoked set
SessionDocs(sess) ==
    [i \in 1..Len(sess) |->
        [user_id |-> sess[i].user_id, revoked |-> sess[i].status = "revoked",
         expires_at |-> ExpiresAt]]

\* the instant of a request, seen from session sid: at its expiry once
\* the session is "expired", before it otherwise
InstantFor(sess, sid) ==
    IF sid \in 1..Len(sess) /\ sess[sid].status = "expired"
    THEN ExpiresAt ELSE ExpiresAt - 1

\* get_current_user accepting every session that exists
GetCurrentUser_IgnoresRevoked(us, sess, t, fail) ==
    IF DecodeAccessToken(sess, t) = <<>> THEN [status |-> "401", user_id |-> 0]
    ELSE IF fail = 1 THEN [status |-> "503", user_id |-> 0]
    ELSE IF fail = 2 THEN [status |-> "503", user_id |-> 0]
    ELSE IF ~UserExists(us, sess[t].user_id) THEN [status |-> "401", user_id |-> 0]
    ELSE [status |-> "ok", user_id |-> sess[t].user_id]

\* get_current_user: the dependency of the protected endpoints, resolved
\* before the endpoint's body runs; fail names the store call that raises
\* DBUnavailable (1 is_session_active, 2 get_user_by_id), and 5 is a
\* request served by a client that decodes expires_at without tzinfo
GetCurrentUser(us, sess, t, fail) ==
    LET auth == CurrentUser(us, SessionDocs(sess), DecodeAccessToken(sess, t),
                            InstantFor(sess, t),
                            IF fail = 5 THEN "naive" ELSE "aware", fail)
    IN  [status |-> auth.status, user_id |-> auth.user_id]

\* the response in flight: endpoint, upload, token, user, status, body
Response(op, emb, t, uid, status, ret, score) ==
    Call(op, emb, t, uid, Res(status, ret, score, <<>>))

NewSession(uid) == [user_id |-> uid, status |-> "active"]

\* signup creating the identity before it looks at the embedding
SignupCall_CreatesBeforeCheck ==
    /\ last = Idle
    /\ TotalEmb(users) < MaxEmb /\ Len(sessions) < MaxSessions /\ logs < MaxLogs
    /\ \E emb \in Uploads, fail \in 0..3 :
          IF emb = NoFace
          THEN /\ users' = Append(users, <<emb>>)
               /\ last' = Response("signup", emb, 0, 0, "400", <<>>, 0)
               /\ UNCHANGED <<sessions, logs>>
          ELSE IF fail = 1
          THEN /\ last' = Response("signup", emb, 0, 0, "503", <<>>, 0)
               /\ UNCHANGED <<users, sessions, logs>>
          ELSE IF fail = 2
          THEN /\ users' = Append(users, <<emb>>)
               /\ last' = Response("signup", emb, 0, 0, "503", <<>>, 0)
               /\ UNCHANGED <<sessions, logs>>
          ELSE /\ users' = Append(users, <<emb>>)
               /\ sessions' = Append(sessions, NewSession(Len(users) + 1))
               /\ IF fail = 3
                  THEN /\ last' = Response("signup", emb, 0, 0, "503", <<>>, 0)
                       /\ UNCHANGED logs
                  ELSE /\ last' = Response("signup", emb, Len(sessions) + 1,
                                           Len(users) + 1, "200", <<>>, 0)
                       /\ logs' = logs + 1
    /\ UNCHANGED <<db, ann>>

\* signup: create_user, create_session_with_expiry, log_action; fail
\* names the one of the three that raises DBUnavailable
SignupCall ==
    /\ last = Idle
    /\ TotalEmb(users) < MaxEmb /\ Len(sessions) < MaxSessions /\ logs < MaxLogs
    /\ \E emb \in Uploads, fail \in 0..3 :
          IF emb = NoFace
          THEN /\ last' = Response("signup", emb, 0, 0, "400", <<>>, 0)
               /\ UNCHANGED <<users, sessions, logs>>
          ELSE IF fail = 1
          THEN /\ last' = Response("signup", emb, 0, 0, "503", <<>>, 0)
               /\ UNCHANGED <<users, sessions, logs>>
          ELSE IF fail = 2
          THEN /\ users' = Append(users, <<emb>>)
               /\ last' = Response("signup", emb, 0, 0, "503", <<>>, 0)
               /\ UNCHANGED <<sessions, logs>>
          ELSE /\ users' = Append(users, <<emb>>)
               /\ sessions' = Append(sessions, NewSession(Len(users) + 1))
               /\ IF fail = 3
                  THEN /\ last' = Response("signup", emb, 0, 0, "503", <<>>, 0)
                       /\ UNCHANGED logs
                  ELSE /\ last' = Response("signup", emb, Len(sessions) + 1,
                                           Len(users) + 1, "200", <<>>, 0)
                       /\ logs' = logs + 1
    /\ UNCHANGED <<db, ann>>

\* login issuing a session only for a match at or above the threshold
LoginCall_AppliesThreshold ==
    /\ last = Idle
    /\ Len(sessions) < MaxSessions /\ logs < MaxLogs
    /\ \E emb \in Uploads, scan \in StoreAnswers, session \in SessionAnswers :
          IF emb = NoFace
          THEN /\ last' = Response("login", emb, 0, 0, "400", <<>>, 0)
               /\ UNCHANGED <<sessions, logs>>
          ELSE LET r == FindBestMatch(users, db, ann, emb, KnnRaised, "ok", scan)
                   status == ToString(Login(r, session).status)
                   matched == r.outcome = "return" /\ r.ret # <<>>
                              /\ r.ret[1].confidence >= DEFAULT_THRESHOLD
                   uid == IF matched THEN r.ret[1].user_id ELSE 0
               IN  IF ~matched
                   THEN /\ last' = Call("login", emb, 0, 0, Res(status, <<>>, 0, r.trace))
                        /\ UNCHANGED <<sessions, logs>>
                   ELSE IF session = "raises"
                   THEN /\ last' = Call("login", emb, 0, uid,
                                        Res(status, <<>>, 0, r.trace \o <<"session_raised">>))
                        /\ UNCHANGED <<sessions, logs>>
                   ELSE /\ sessions' = Append(sessions, NewSession(uid))
                        /\ IF session = "log_raises"
                           THEN /\ last' = Call("login", emb, 0, uid,
                                                Res(status, <<>>, 0,
                                                    r.trace \o <<"session_ok", "log_raised">>))
                                /\ UNCHANGED logs
                           ELSE /\ last' = Call("login", emb, Len(sessions) + 1, uid,
                                                Res(status, r.ret, 0,
                                                    r.trace \o <<"session_ok", "log_ok">>))
                                /\ logs' = logs + 1
    /\ UNCHANGED <<users, db, ann>>

\* login: find_best_match, then a session and a log entry for the match.
\* The response carries the token (k) only when all three went through;
\* uid is the identity find_best_match matched, the trace its steps
\* followed by what became of the session insert and of the log insert
LoginCall ==
    /\ last = Idle
    /\ Len(sessions) < MaxSessions /\ logs < MaxLogs
    /\ \E emb \in Uploads, scan \in StoreAnswers, session \in SessionAnswers :
          IF emb = NoFace
          THEN /\ last' = Response("login", emb, 0, 0, "400", <<>>, 0)
               /\ UNCHANGED <<sessions, logs>>
          ELSE LET r == FindBestMatch(users, db, ann, emb, KnnRaised, "ok", scan)
                   status == ToString(Login(r, session).status)
                   matched == r.outcome = "return" /\ r.ret # <<>>
                   uid == IF matched THEN r.ret[1].user_id ELSE 0
               IN  IF ~matched
                   THEN /\ last' = Call("login", emb, 0, 0, Res(status, <<>>, 0, r.trace))
                        /\ UNCHANGED <<sessions, logs>>
                   ELSE IF session = "raises"
                   THEN /\ last' = Call("login", emb, 0, uid,
                                        Res(status, <<>>, 0, r.trace \o <<"session_raised">>))
                        /\ UNCHANGED <<sessions, logs>>
                   ELSE /\ sessions' = Append(sessions, NewSession(uid))
                        /\ IF session = "log_raises"
                           THEN /\ last' = Call("login", emb, 0, uid,
                                                Res(status, <<>>, 0,
                                                    r.trace \o <<"session_ok", "log_raised">>))
                                /\ UNCHANGED logs
                           ELSE /\ last' = Call("login", emb, Len(sessions) + 1, uid,
                                                Res(status, r.ret, 0,
                                                    r.trace \o <<"session_ok", "log_ok">>))
                                /\ logs' = logs + 1
    /\ UNCHANGED <<users, db, ann>>

\* logout: decodes the token itself and revokes its session
LogoutCall ==
    /\ last = Idle
    /\ \E t \in Tokens, fail \in 0..1 :
          IF DecodeAccessToken(sessions, t) = <<>>
          THEN /\ last' = Response("logout", NoFace, t, 0, "401", <<>>, 0)
               /\ UNCHANGED sessions
          ELSE IF fail = 1
          THEN /\ last' = Response("logout", NoFace, t, 0, "503", <<>>, 0)
               /\ UNCHANGED sessions
          ELSE /\ sessions' = [sessions EXCEPT ![t].status = "revoked"]
               /\ last' = Response("logout", NoFace, t, sessions[t].user_id, "200", <<>>, 1)
    /\ UNCHANGED <<users, db, ann, logs>>

\* enroll appending the embedding to the first identity of the collection
EnrollCall_AppendsToFirst ==
    /\ last = Idle
    /\ TotalEmb(users) < MaxEmb /\ logs < MaxLogs
    /\ \E t \in Tokens, emb \in Uploads, fail \in 0..5 :
          LET auth == GetCurrentUser(users, sessions, t, fail)
          IN  IF auth.status # "ok"
              THEN /\ last' = Response("enroll", emb, t, 0, auth.status, <<>>, 0)
                   /\ UNCHANGED <<users, logs>>
              ELSE IF emb = NoFace
              THEN /\ last' = Response("enroll", emb, t, auth.user_id, "400", <<>>, 0)
                   /\ UNCHANGED <<users, logs>>
              ELSE IF fail = 3
              THEN /\ last' = Response("enroll", emb, t, auth.user_id, "503", <<>>, 0)
                   /\ UNCHANGED <<users, logs>>
              ELSE IF ~UserExists(users, auth.user_id)
              THEN /\ last' = Response("enroll", emb, t, auth.user_id, "404", <<>>, 0)
                   /\ UNCHANGED <<users, logs>>
              ELSE /\ users' = [users EXCEPT ![1] = Append(@, emb)]
                   /\ IF fail = 4
                      THEN /\ last' = Response("enroll", emb, t, auth.user_id, "503", <<>>, 0)
                           /\ UNCHANGED logs
                      ELSE /\ last' = Response("enroll", emb, t, auth.user_id, "200", <<>>, 1)
                           /\ logs' = logs + 1
    /\ UNCHANGED <<db, ann, sessions>>

\* enroll: get_current_user, then add_face_to_user and log_action; fail
\* names the store call that raises (3 add_face_to_user, 4 log_action)
EnrollCall ==
    /\ last = Idle
    /\ TotalEmb(users) < MaxEmb /\ logs < MaxLogs
    /\ \E t \in Tokens, emb \in Uploads, fail \in 0..5 :
          LET auth == GetCurrentUser(users, sessions, t, fail)
          IN  IF auth.status # "ok"
              THEN /\ last' = Response("enroll", emb, t, 0, auth.status, <<>>, 0)
                   /\ UNCHANGED <<users, logs>>
              ELSE IF emb = NoFace
              THEN /\ last' = Response("enroll", emb, t, auth.user_id, "400", <<>>, 0)
                   /\ UNCHANGED <<users, logs>>
              ELSE IF fail = 3
              THEN /\ last' = Response("enroll", emb, t, auth.user_id, "503", <<>>, 0)
                   /\ UNCHANGED <<users, logs>>
              ELSE IF ~UserExists(users, auth.user_id)
              THEN /\ last' = Response("enroll", emb, t, auth.user_id, "404", <<>>, 0)
                   /\ UNCHANGED <<users, logs>>
              ELSE /\ users' = [users EXCEPT ![auth.user_id] = Append(@, emb)]
                   /\ IF fail = 4
                      THEN /\ last' = Response("enroll", emb, t, auth.user_id, "503", <<>>, 0)
                           /\ UNCHANGED logs
                      ELSE /\ last' = Response("enroll", emb, t, auth.user_id, "200", <<>>, 1)
                           /\ logs' = logs + 1
    /\ UNCHANGED <<db, ann, sessions>>

\* verify: get_current_user, then verify_user and log_action; fail names
\* the store call that raises (3 verify_user's find_one, 4 log_action)
VerifyCall ==
    /\ last = Idle
    /\ logs < MaxLogs
    /\ \E t \in Tokens, emb \in Uploads, fail \in 0..5 :
          LET auth == GetCurrentUser(users, sessions, t, fail)
              r == VerifyUser(users, db, auth.user_id, emb,
                              IF fail = 3 THEN "raises" ELSE "ok")
          IN  IF auth.status # "ok"
              THEN /\ last' = Response("verify", emb, t, 0, auth.status, <<>>, 0)
                   /\ UNCHANGED logs
              ELSE IF emb = NoFace
              THEN /\ last' = Response("verify", emb, t, auth.user_id, "400", <<>>, 0)
                   /\ UNCHANGED logs
              ELSE IF r.outcome = "DBUnavailable" \/ fail = 4
              THEN /\ last' = Response("verify", emb, t, auth.user_id, "503", <<>>, 0)
                   /\ UNCHANGED logs
              ELSE IF r.outcome # "return"
              THEN /\ last' = Response("verify", emb, t, auth.user_id, "500", <<>>, 0)
                   /\ UNCHANGED logs
              ELSE /\ last' = Response("verify", emb, t, auth.user_id, "200",
                                       <<VerifyResponse(r.score)>>, r.score)
                   /\ logs' = logs + 1
    /\ UNCHANGED <<users, db, ann, sessions>>

\* recognize: search_candidates(embedding, top_k=5), and a log entry for
\* the top candidate when there is one
RecognizeCall ==
    /\ last = Idle
    /\ logs < MaxLogs
    /\ \E emb \in Uploads, scan \in StoreAnswers, log \in {"ok", "raises"} :
          IF emb = NoFace
          THEN /\ last' = Response("recognize", emb, 0, 0, "400", <<>>, 0)
               /\ UNCHANGED logs
          ELSE LET r == SearchCandidates(users, db, ann, emb, 5, KnnRaised, 0, scan)
               IN  IF r.outcome = "DBUnavailable"
                   THEN /\ last' = Response("recognize", emb, 0, 0, "503", <<>>, 0)
                        /\ UNCHANGED logs
                   ELSE IF r.outcome # "return"
                   THEN /\ last' = Response("recognize", emb, 0, 0, "500", <<>>, 0)
                        /\ UNCHANGED logs
                   ELSE IF r.ret = <<>>
                   THEN /\ last' = Response("recognize", emb, 0, 0, "200", <<>>, 0)
                        /\ UNCHANGED logs
                   ELSE IF log = "raises"
                   THEN /\ last' = Response("recognize", emb, 0, 0, "503", <<>>, 0)
                        /\ UNCHANGED logs
                   ELSE /\ last' = Response("recognize", emb, 0, 0, "200", r.ret, 0)
                        /\ logs' = logs + 1
    /\ UNCHANGED <<users, db, ann, sessions>>

\* time passes a session's expires_at, and with it the exp of its token
Expire ==
    /\ last = Idle
    /\ \E sid \in 1..Len(sessions) :
          /\ sessions[sid].status = "active"
          /\ sessions' = [sessions EXCEPT ![sid].status = "expired"]
    /\ UNCHANGED <<users, db, ann, last, logs>>

\* the application after lifespan() connected to a store with no identity
ApiInit ==
    /\ users = <<>>
    /\ db = "up"
    /\ ann = NoIndex
    /\ last = Idle
    /\ sessions = <<>>
    /\ logs = 0

ApiNext ==
    \/ SignupCall
    \/ LoginCall
    \/ LogoutCall
    \/ EnrollCall
    \/ VerifyCall
    \/ RecognizeCall
    \/ Expire
    \/ Return

ApiSpec == ApiInit /\ [][ApiNext]_vars

\* the step is a request to a protected endpoint carrying token t
ProtectedRequest(t) ==
    /\ last'.op \in {"enroll", "verify"}
    /\ last'.k = t

Revoked(t) == t \in 1..Len(sessions) /\ sessions[t].status = "revoked"
Active(t) == t \in 1..Len(sessions) /\ sessions[t].status = "active"

\* no step makes a revoked session anything else
RevocationPermanent ==
    \A sid \in 1..Len(sessions) : Revoked(sid) => sessions'[sid].status = "revoked"

\* C26 (as claimed): once a session is revoked every request to a
\* protected endpoint with its token is answered 401 and changes nothing
\* in the store, and no step makes the session active again
C26_RevokedRejected401 ==
    [][/\ RevocationPermanent
       /\ \A t \in 1..Len(sessions) :
             (Revoked(t) /\ ProtectedRequest(t))
                => /\ last'.outcome = "401"
                   /\ UNCHANGED <<users, sessions, logs>>]_vars

\* C26 (amended): once a session is revoked every request to a protected
\* endpoint with its token is rejected, with 401, or with 503 when the
\* store fails on the session lookup, and changes nothing in the store;
\* no step makes the session active again
C26_RevokedRejected ==
    [][/\ RevocationPermanent
       /\ \A t \in 1..Len(sessions) :
             (Revoked(t) /\ ProtectedRequest(t))
                => /\ last'.outcome \in {"401", "503"}
                   /\ UNCHANGED <<users, sessions, logs>>]_vars

\* C26 witness: enroll with a face and the token of a revoked session was
\* answered 401
C26_Witness ==
    /\ last.op = "enroll" /\ last.outcome = "401"
    /\ Revoked(last.k)
    /\ last.q # NoFace

\* the step is a request without a face to one of the five endpoints
FacelessRequest ==
    /\ last'.op \in {"signup", "login", "enroll", "verify", "recognize"}
    /\ last'.q = NoFace

\* C27 (as claimed): when no embedding can be extracted signup, login,
\* enroll, verify and recognize answer 400 and leave identities,
\* embeddings, sessions and logs unchanged
C27_NoFaceIs400 ==
    [][FacelessRequest
          => /\ last'.outcome = "400"
             /\ UNCHANGED <<users, sessions, logs>>]_vars

\* C27 (amended): when no embedding can be extracted signup, login and
\* recognize answer 400; enroll and verify answer 400 once the token was
\* accepted, and before that 401 for a token of no active session, 503
\* when the store fails during authentication, or 500 when the expiry of
\* the token's session cannot be compared; identities, embeddings,
\* sessions and logs are unchanged in every case
C27_NoFaceIs400OnceAuthenticated ==
    [][FacelessRequest
          => /\ \/ last'.outcome = "400"
                \/ /\ last'.op \in {"enroll", "verify"}
                   /\ last'.outcome = "401"
                   /\ ~Active(last'.k)
                \/ /\ last'.op \in {"enroll", "verify"}
                   /\ last'.outcome = "503"
                   /\ DecodeAccessToken(sessions, last'.k) # <<>>
                \/ /\ last'.op \in {"enroll", "verify"}
                   /\ last'.outcome = "500"
                   /\ Active(last'.k)
             /\ UNCHANGED <<users, sessions, logs>>]_vars

\* C27 witness: enroll without a face, with an accepted token, was
\* answered 400
C27_Witness ==
    /\ last.op = "enroll" /\ last.q = NoFace /\ last.outcome = "400"
    /\ Active(last.k)
    /\ logs > 0

\* the store with emb appended to the faces of identity uid, nothing else
WithFace(uid, emb) == [users EXCEPT ![uid] = Append(@, emb)]

\* C28 (as claimed): with the token of an active session enroll succeeds
\* and appends exactly one embedding to the token's own identity and to no
\* other, and verify scores against the token's own identity only
C28_TokenActsOnOwnIdentity ==
    [][\A t \in 1..Len(sessions) :
          Active(t) =>
             /\ (last'.op = "enroll" /\ last'.k = t)
                   => /\ last'.outcome = "200"
                      /\ users' = WithFace(sessions[t].user_id, last'.q)
             /\ (last'.op = "verify" /\ last'.k = t)
                   => /\ last'.outcome = "200"
                      /\ last'.score = VerifyScore(users, sessions[t].user_id, last'.q)]_vars

\* C28 (amended): with the token of an active session and an upload that
\* yields an embedding, enroll and verify answer 200, or 503 when a store
\* call of the request fails, or 500 when the session's expiry cannot be
\* compared (then nothing changes); whenever enroll changes the identities it
\* appends exactly that one embedding to the token's own identity, and it
\* does so whenever it answers 200; the score verify answers with is the
\* one against the token's own identity
C28_TokenActsOnOwnIdentityWhenServed ==
    [][\A t \in 1..Len(sessions) :
          (Active(t) /\ last'.q # NoFace) =>
             /\ (last'.op = "enroll" /\ last'.k = t)
                   => /\ last'.outcome \in {"200", "503", "500"}
                      /\ last'.outcome = "500" => users' = users
                      /\ users' \in {users, WithFace(sessions[t].user_id, last'.q)}
                      /\ last'.outcome = "200"
                            => users' = WithFace(sessions[t].user_id, last'.q)
             /\ (last'.op = "verify" /\ last'.k = t)
                   => /\ last'.outcome \in {"200", "503", "500"}
                      /\ last'.outcome = "200"
                            => last'.score
                                  = VerifyScore(users, sessions[t].user_id, last'.q)]_vars

\* C28 witness: with two identities enrolled, enroll with the token of the
\* second was answered 200 and its embedding is the last of that identity
C28_Witness ==
    /\ last.op = "enroll" /\ last.outcome = "200"
    /\ Len(users) >= 2 /\ last.uid = 2
    /\ Active(last.k) /\ sessions[last.k].user_id = 2
    /\ Len(users[1]) = 1
    /\ users[2][Len(users[2])] = last.q

\* ------------------------------------------- ANNIndex, called directly
\* most vectors one build() call is given
MaxPoints == 2

\* identity ids a caller may hand to build(): strings, as str(_id) is
Ids == {"1", "2", "007", "5f1d"}

\* vectors a caller may hand to build()
AnnVectors == {E1, E2, Q3}

\* add_items(data, ids) takes integer labels: a string of decimal digits is
\* read as the number it writes, any other string raises (-1 here)
ToLabel(id) ==
    CASE id = "1" -> 1
      [] id = "2" -> 2
      [] id = "007" -> 7
      [] OTHER -> -1

\* ANNIndex(dim): nothing built, _ids = []; inited is whether init_index
\* has run on the hnswlib handle
NewIndex(kind, dim) ==
    [kind |-> kind, initialized |-> FALSE, dim |-> dim, points |-> <<>>,
     ids |-> <<>>, inited |-> FALSE]

\* ANNIndex.build(vectors, ids): the index afterwards.  The no-op class
\* passes; no vectors: return at once; init_index raises on a handle that
\* was initialised before (or for reasons of its own: env); add_items
\* raises on an id that is no integer, on vectors of another dimension
\* than the index's, on ids and vectors of different lengths (or for
\* reasons of its own); else the points are stored under their labels
\* and _ids, _initialized are set
AnnBuild(a, vecs, ids, env) ==
    IF a.kind = "noop" \/ Len(vecs) = 0 THEN a
    ELSE IF a.inited \/ env = "init_raises" THEN a
    ELSE IF \/ env = "build_raises"
            \/ Len(ids) # Len(vecs)
            \/ \E i \in 1..Len(vecs) : Len(vecs[i]) # a.dim
            \/ \E i \in 1..Len(ids) : ToLabel(ids[i]) = -1
         THEN [a EXCEPT !.inited = TRUE]
    ELSE Build(vecs, [i \in 1..Len(ids) |-> ToLabel(ids[i])])
             @@ [ids |-> ids, inited |-> TRUE]

\* whether that build() call raised
AnnBuildRaised(a, vecs, ids, env) ==
    /\ a.kind # "noop"
    /\ Len(vecs) > 0
    /\ ~AnnBuild(a, vecs, ids, env).initialized

\* ANNIndex.knn(vector, k) as its caller sees it: results.append((str(lab),
\* sim)) for the labels knn_query yields
AnnKnn(a, q, k) ==
    {[raised |-> r.raised,
      res |-> [i \in 1..Len(r.res) |->
                  [id |-> ToString(r.res[i].id), sim |-> r.res[i].sim]]] :
        r \in Knn(a, q, k)}

\* sequences of length n over S without repetition
Distinct(S, n) ==
    {s \in [1..n -> S] : \A i, j \in 1..n : i # j => s[i] # s[j]}

\* one build() call: the ids handed over are kept in ret, the number of
\* vectors in k
AnnBuildCall ==
    /\ last = Idle
    /\ \E n \in 0..MaxPoints, env \in {"ok", "init_raises", "build_raises"} :
          \E vecs \in [1..n -> AnnVectors], ids \in Distinct(Ids, n) :
             /\ ann' = AnnBuild(ann, vecs, ids, env)
             /\ last' = Call("build", <<>>, n, 0,
                              Res(IF AnnBuildRaised(ann, vecs, ids, env)
                                  THEN "raises" ELSE "return", ids, 0, <<>>))
    /\ UNCHANGED <<users, db, sessions, logs>>

\* one knn() call
AnnKnnCall ==
    /\ last = Idle
    /\ \E q \in QueryVectors, k \in 0..MaxK :
          \E r \in AnnKnn(ann, q, k) :
             last' = Call("knn", q, k, 0,
                          IF r.raised THEN Res("raises", <<>>, 0, <<>>)
                          ELSE Res("return", r.res, 0, <<>>))
    /\ UNCHANGED <<users, db, ann, sessions, logs>>

\* an index object fresh from its constructor, of either class
AnnInit ==
    /\ users = <<>>
    /\ db = "none"
    /\ ann \in {NewIndex(kind, dim) : kind \in {"noop", "hnsw"}, dim \in {2, 3}}
    /\ last = Idle
    /\ sessions = <<>>
    /\ logs = 0

AnnNext == AnnBuildCall \/ AnnKnnCall \/ Return

AnnSpec == AnnInit /\ [][AnnNext]_vars

\* C31: an index whose build() was never called, or was called with no
\* vectors, is unbuilt, and knn on an unbuilt index returns [] without
\* raising, for every query and every k
C31_UnbuiltIndexAnswersEmpty ==
    /\ ~ann.initialized
    /\ [][last'.op = "build" /\ last'.k = 0 => ann' = ann]_vars
    /\ [](last.op = "knn" /\ ~ann.initialized
             => last.outcome = "return" /\ last.ret = <<>>)

\* a query of the index's own dimension with k > 0 on an unbuilt hnswlib
\* index
C31_Witness ==
    /\ last.op = "knn"
    /\ ann.kind = "hnsw"
    /\ ~ann.initialized
    /\ Len(last.q) = ann.dim
    /\ last.k > 0
    /\ last.outcome = "return"

\* C32: every identifier knn returns is one of the identity ids that were
\* handed to build for the indexed points, and knn returns at most k
\* entries
C32_KnnReturnsBuiltIds ==
    last.op = "knn" /\ last.outcome = "return"
        => /\ \A i \in 1..Len(last.ret) :
                 \E j \in 1..Len(ann.ids) : last.ret[i].id = ann.ids[j]
           /\ Len(last.ret) <= last.k

\* ------------------------------------------------- exact top-k, again
\* the similarity of the query to every stored embedding, in cursor order
AllScores(q) ==
    [i \in 1..Len(AllEmbeddingsWithUser(users)) |->
        Sim(q, AllEmbeddingsWithUser(users)[i].vec)]

\* how often the value v occurs in the sequence s
Times(s, v) == Cardinality({i \in 1..Len(s) : s[i] = v})

\* c holds the Len(c) largest values of s, as a multiset: nothing that s
\* does not hold, and every occurrence in s of a value above one of c
LargestOf(c, s) ==
    /\ \A i \in 1..Len(c) : Times(c, c[i]) <= Times(s, c[i])
    /\ \A i \in 1..Len(s) :
          (\E j \in 1..Len(c) : s[i] > c[j]) => Times(c, s[i]) = Times(s, s[i])

\* search_candidates went to the naive heap-based scan, the store answered
\* it, and the query has the dimension of the stored embeddings
ExactTopKRan ==
    /\ last.op = "search_candidates"
    /\ ServedByExactScan
    /\ StoreAnswered
    /\ Len(last.q) = 2

\* C33: the bounded-heap scan of search_candidates gives the result of a
\* full sort: for every store and k the confidences returned are, as a
\* multiset, the k largest similarity scores over all stored embeddings
\* (all of them when fewer than k exist)
C33_HeapScanIsFullSort ==
    ExactTopKRan =>
        /\ last.outcome = "return"
        /\ Len(last.ret) = IF last.k < TotalEmb(users) THEN last.k ELSE TotalEmb(users)
        /\ LargestOf([i \in 1..Len(last.ret) |-> last.ret[i].confidence],
                     AllScores(last.q))

\* C36: the exact top-k scan of search_candidates completes without raising
\* for every store content, stored embeddings of exactly equal similarity
\* to the query included
C36_ExactTopKNeverRaises ==
    ExactTopKRan => last.outcome = "return"

\* C34: find_best_match returns absent only when the store holds no
\* embeddings: with at least one enrolled embedding of the query's
\* dimension and a reachable store it returns some identity, whatever the
\* state of the index handle (absent, built, created but unbuilt, stale)
C34_AbsentOnlyWhenStoreEmpty ==
    (/\ last.op = "find_best_match"
     /\ StoreAnswered
     /\ TotalEmb(users) >= 1
     /\ Len(last.q) = 2) =>
        /\ last.outcome = "return"
        /\ last.ret # <<>>

\* the identities of the snapshot the index was built from
SnapshotIds == {ann.points[j].id : j \in 1..Len(ann.points)}

\* find_best_match returned an identity while a built index is in place
MatchedWithIndex ==
    /\ last.op = "find_best_match"
    /\ last.outcome = "return"
    /\ last.ret # <<>>
    /\ ann.initialized

\* C35: with a built index snapshot in place, find_best_match returns an
\* identity of the snapshot whenever the index path answers without error;
\* an identity enrolled after the build is returned only by requests whose
\* approximate path raised and whose exact scan ran
C35_StaleIndexHidesNewIdentities ==
    MatchedWithIndex =>
        \/ last.ret[1].user_id \in SnapshotIds
        \/ /\ Count(last.trace, ApproxFailures) >= 1
           /\ last.trace[Len(last.trace)] = "scan_ok"

\* C35 witness: an identity enrolled after the build, returned by the exact
\* scan of a request whose index query raised
C35_Witness ==
    /\ MatchedWithIndex
    /\ last.ret[1].user_id \notin SnapshotIds
    /\ Contains(last.trace, "knn_raised")

\* ------------------------------------------------------ login endpoint
\* the step is a login request that carried a face
LoginStep == last'.op = "login" /\ last'.q # NoFace

\* what find_best_match returns for the upload of the step when it returns
LoginMatch == ScanBest(AllEmbeddingsWithUser(users), last'.q, <<>>)

\* find_best_match returned a match to the login of the step
LoginMatched == Contains(last'.trace, "scan_ok") /\ LoginMatch # <<>>

\* find_best_match returned absent to the login of the step
LoginAbsent == Contains(last'.trace, "scan_ok") /\ LoginMatch = <<>>

\* the step created one session, for identity uid
SessionCreatedFor(uid) == sessions' = Append(sessions, NewSession(uid))

\* C37 (as claimed): login creates a session and issues a token exactly
\* when find_best_match returns a match, for the matched identity and
\* whatever the confidence; when it returns absent no session is created
\* and no log entry written
C37_SessionAndTokenIffMatch ==
    [][LoginStep =>
          /\ LoginMatched
                => /\ SessionCreatedFor(LoginMatch[1].user_id)
                   /\ last'.k = Len(sessions')
                   /\ last'.outcome = "200"
          /\ ~LoginMatched
                => /\ UNCHANGED <<sessions, logs>>
                   /\ last'.k = 0]_vars

\* C37 (amended): login creates a session only when find_best_match
\* returns a match, then for the matched identity, whatever the confidence
\* and whenever the store takes the session insert; the token is issued
\* (200) when the log write went through as well, and the answer is 503
\* when either insert failed; when find_best_match returns absent or
\* raises, no session is created, no log entry written, no token issued
C37_SessionOnlyForMatch ==
    [][LoginStep =>
          /\ LoginMatched
                => /\ \/ SessionCreatedFor(LoginMatch[1].user_id)
                      \/ /\ Contains(last'.trace, "session_raised")
                         /\ UNCHANGED <<sessions, logs>>
                   /\ last'.outcome \in {"200", "503"}
                   /\ last'.outcome = "200"
                         <=> /\ SessionCreatedFor(LoginMatch[1].user_id)
                             /\ logs' = logs + 1
                             /\ last'.k = Len(sessions')
                   /\ last'.outcome = "503" => last'.k = 0 /\ logs' = logs
          /\ ~LoginMatched
                => /\ UNCHANGED <<sessions, logs>>
                   /\ last'.k = 0
          /\ LoginAbsent => last'.outcome = "200"]_vars

\* C37 witness: a login whose match has confidence below the verify
\* threshold was given a session and a token
C37_Witness ==
    /\ last.op = "login" /\ last.outcome = "200"
    /\ last.ret # <<>>
    /\ last.ret[1].confidence < DEFAULT_THRESHOLD
    /\ last.k = Len(sessions)
    /\ sessions[last.k].user_id = last.ret[1].user_id

\* ------------------------------------------------------ session checks
\* session sid exists, is not revoked, and has no expiry or one strictly
\* after the instant now
LiveSession(sid, now) ==
    /\ sid \in 1..Len(sessions)
    /\ ~sessions[sid].revoked
    /\ (sessions[sid].expires_at = NoExpiry \/ sessions[sid].expires_at > now)

\* C38: is_session_active(s) is true exactly when session s exists, is not
\* revoked, and has no expiry or an expiry strictly in the future (checked
\* of the calls the store answers); get_current_user rejects with 401
\* every token whose session id fails this check, before any user lookup
C38_ActiveIffLiveSession ==
    /\ (last.op = "is_session_active" /\ last.outcome # "DBUnavailable")
          => /\ last.outcome = "return"
             /\ last.ret = <<LiveSession(last.k, last.score)>>
    /\ (/\ last.op = "get_current_user"
        /\ last.q # <<>> /\ last.k # 0
        /\ last.outcome # "503"
        /\ ~LiveSession(last.k, last.score))
          => /\ last.outcome = "401"
             /\ ~Contains(last.trace, "user_lookup")

\* the step is a revoke_all_user_sessions(uid, exclude) call
RevokeAllStep(uid, exclude) ==
    /\ last'.op = "revoke_all_user_sessions"
    /\ last'.uid = uid
    /\ last'.k = exclude

\* C39: revoke_all_user_sessions(user, exclude), when it returns, has
\* marked as revoked every not yet revoked session of that user except the
\* excluded one and returns how many it revoked; the excluded session and
\* the sessions of other users are unchanged (also when it raises), and
\* nothing but the revoked mark of a session changes
C39_RevokeAllButExcluded ==
    [][\A uid \in SessionUsers, exclude \in 0..MaxDocs :
          RevokeAllStep(uid, exclude) =>
             /\ Len(sessions') = Len(sessions)
             /\ \A i \in 1..Len(sessions) :
                   /\ sessions'[i].user_id = sessions[i].user_id
                   /\ sessions'[i].expires_at = sessions[i].expires_at
                   /\ (sessions[i].user_id # uid \/ i = exclude)
                         => sessions'[i] = sessions[i]
                   /\ (/\ last'.outcome = "return"
                       /\ sessions[i].user_id = uid
                       /\ i # exclude) => sessions'[i].revoked
             /\ last'.outcome = "return"
                   => last'.score =
                         Cardinality({i \in 1..Len(sessions) :
                                         ~sessions[i].revoked /\ sessions'[i].revoked})]_vars

\* C39 witness: of three sessions, one of the caller was revoked, the
\* caller's excluded one and the other user's are still not revoked
C39_Witness ==
    /\ last.op = "revoke_all_user_sessions" /\ last.outcome = "return"
    /\ last.score = 1
    /\ Len(sessions) = 3
    /\ last.k \in 1..3
    /\ sessions[last.k].user_id = last.uid /\ ~sessions[last.k].revoked
    /\ \E i \in 1..3 : sessions[i].user_id = last.uid /\ sessions[i].revoked
    /\ \E i \in 1..3 : sessions[i].user_id # last.uid /\ ~sessions[i].revoked

\* ------------------------------------------------- before connect()
\* the process that never called connect(): every function of db.py that
\* goes to the store, called on whatever the store holds
ColdNext ==
    \/ CreateUser
    \/ AddFaceToUser
    \/ FindBestMatchCall
    \/ VerifyUserCall
    \/ SearchCandidatesCall
    \/ CreateSessionCall
    \/ RevokeSessionCall
    \/ IsSessionActiveCall
    \/ RevokeAllUserSessionsCall
    \/ Return

ColdSpec == Init /\ [][ColdNext]_vars

StoreBackedOps ==
    {"create_user", "add_face_to_user", "find_best_match", "verify_user",
     "search_candidates", "create_session_with_expiry", "revoke_session",
     "is_session_active", "revoke_all_user_sessions"}

\* C40: every store-backed operation called while the database has not
\* been initialized by connect() raises DBUnavailable and changes nothing
C40_NotConnectedRaises ==
    [][(db = "none" /\ last'.op \in StoreBackedOps)
          => /\ last'.outcome = "DBUnavailable"
             /\ UNCHANGED <<users, db, ann, sessions, logs>>]_vars

\* C40 witness: search_candidates with k > 0 on a process that is not
\* connected, over a store that holds embeddings, raised DBUnavailable
C40_Witness ==
    /\ db = "none"
    /\ last.op = "search_candidates" /\ last.k > 0
    /\ TotalEmb(users) > 0
    /\ last.outcome = "DBUnavailable"

====
